---- MODULE Spec2Model ----
(***************************************************************************)
(* Mini-Zapier workflow execution engine: executeWorkflow                  *)
(* (src/lib/workflowEngine.ts), the variable resolver                      *)
(* (src/lib/variableSubstitution.ts) and the action dispatcher             *)
(* (src/lib/actionHandlers).                                               *)
(*                                                                         *)
(* JavaScript values are tagged records.  A JavaScript string is a         *)
(* sequence of tokens: the characters "{", "}", "." and " " are tokens of  *)
(* their own, every other token is a run of characters that contains none  *)
(* of them in a templated string (strings that are only data may be kept   *)
(* as one token).  Messages built by the engine are one token.             *)
(***************************************************************************)
EXTENDS Integers, Sequences, FiniteSets, TLC

\* ------------------------------------------------------------------------
\* Bounds of the model
\* ------------------------------------------------------------------------
MaxTriggers == 2
MaxActions == 2
MaxRequests == 3

\* ------------------------------------------------------------------------
\* JavaScript values
\* ------------------------------------------------------------------------
Undefined == [t |-> "undef"]
Null == [t |-> "null"]
Str(toks) == [t |-> "str", v |-> toks]
Num(n) == [t |-> "num", v |-> n]
Arr(s) == [t |-> "arr", v |-> s]
Obj(f) == [t |-> "obj", v |-> f]
Bool(b) == [t |-> "bool", v |-> b]
\* a built-in function, reached through the prototype chain
Fn(name) == [t |-> "fn", v |-> name]
Msg(s) == Str(<<s>>)
EmptyObj == Obj(<<>>)

\* F applied to the values of its arguments: the arguments are evaluated
\* once, before the call (call by value, as in the program)
Call1(F(_), a) == CHOOSE r \in {F(v) : v \in {a}} : TRUE
Call2(F(_, _), a, b) == CHOOSE r \in {F(v, w) : v \in {a}, w \in {b}} : TRUE
Call3(F(_, _, _), a, b, c) ==
  CHOOSE r \in {F(v, w, u) : v \in {a}, w \in {b}, u \in {c}} : TRUE

IsSpecial(c) == c \in {"{", "}", ".", " "}

RECURSIVE Flat(_)
Flat(s) == IF s = <<>> THEN "" ELSE s[1] \o Call1(Flat, Tail(s))

\* adjacent ordinary tokens are one run of characters
RECURSIVE Norm(_)
Norm(s) ==
  IF Len(s) < 2 THEN s
  ELSE IF ~IsSpecial(s[1]) /\ ~IsSpecial(s[2])
       THEN Call1(Norm, <<s[1] \o s[2]>> \o Tail(Tail(s)))
       ELSE <<s[1]>> \o Call1(Norm, Tail(s))

RECURSIVE JoinComma(_)
JoinComma(parts) ==
  IF parts = <<>> THEN <<>>
  ELSE IF Len(parts) = 1 THEN parts[1]
  ELSE parts[1] \o <<",">> \o Call1(JoinComma, Tail(parts))

\* String(value)
RECURSIVE ToStr(_)
ToStr(val) ==
  CASE val.t = "str" -> val.v
    [] val.t = "num" -> <<ToString(val.v)>>
    [] val.t = "null" -> <<"null">>
    [] val.t = "undef" -> <<"undefined">>
    [] val.t = "obj" -> <<"[object Object]">>
    [] val.t = "bool" -> <<IF val.v THEN "true" ELSE "false">>
    [] val.t = "fn" -> <<"function " \o val.v \o "() { [native code] }">>
    [] val.t = "arr" ->
         Call1(JoinComma, [k \in 1..Len(val.v) |->
                             IF val.v[k].t \in {"null", "undef"} THEN <<>>
                             ELSE Call1(ToStr, val.v[k])])

\* a template literal `${value}`
JsString(val) == Call1(Flat, ToStr(val))

\* ------------------------------------------------------------------------
\* variableSubstitution.ts
\* ------------------------------------------------------------------------
RECURSIVE TrimLeft(_)
TrimLeft(s) == IF s # <<>> /\ s[1] = " " THEN Call1(TrimLeft, Tail(s)) ELSE s

RECURSIVE TrimRight(_)
TrimRight(s) ==
  IF s # <<>> /\ s[Len(s)] = " " THEN Call1(TrimRight, SubSeq(s, 1, Len(s) - 1))
  ELSE s

Trim(s) == Call1(TrimRight, TrimLeft(s))

\* path.split('.')
RECURSIVE Split(_)
Split(s) ==
  LET dots == {k \in 1..Len(s) : s[k] = "."} IN
  IF dots = {} THEN <<s>>
  ELSE LET d == CHOOSE k \in dots : \A m \in dots : k <= m
       IN  <<SubSeq(s, 1, d - 1)>> \o Call1(Split, SubSeq(s, d + 1, Len(s)))

DigitValue == [z \in {"0", "1", "2"} |-> CASE z = "0" -> 0 [] z = "1" -> 1 [] z = "2" -> 2]

\* key.match(/^\d+$/)
IsDigits(key) == Len(key) = 1 /\ key[1] \in DOMAIN DigitValue

ParseInt(key) == DigitValue[key[1]]

\* the index is taken to count from one
Index_OneBased(current, n) ==
  IF n \in 1..Len(current.v) THEN current.v[n] ELSE Undefined

\* current[index] on an array
Index(current, n) ==
  IF n + 1 \in 1..Len(current.v) THEN current.v[n + 1] ELSE Undefined

\* current[key] for a key current does not hold itself: the lookup goes on in
\* the prototype of current (of the inherited properties, constructor and
\* toString are modelled)
Inherited(current, k) ==
  CASE k = "constructor" ->
         Fn(CASE current.t = "arr" -> "Array"
              [] current.t = "str" -> "String"
              [] current.t = "num" -> "Number"
              [] current.t = "bool" -> "Boolean"
              [] current.t = "fn" -> "Function"
              [] OTHER -> "Object")
    [] k = "toString" -> Fn("toString")
    [] OTHER -> Undefined

\* current[key] for a key that is not all digits
Prop(current, k) ==
  CASE current.t = "obj" ->
         IF k \in DOMAIN current.v THEN current.v[k] ELSE Inherited(current, k)
    [] current.t = "arr" ->
         IF k = "length" THEN Num(Len(current.v)) ELSE Inherited(current, k)
    [] current.t = "str" ->
         IF k = "length" THEN Num(Len(Flat(current.v))) ELSE Inherited(current, k)
    [] current.t = "fn" ->
         IF k = "name" THEN Str(<<current.v>>) ELSE Inherited(current, k)
    [] OTHER -> Inherited(current, k)

\* the loop of getNestedValue over the remaining keys
RECURSIVE Walk(_, _)
Walk(current, keys) ==
  IF keys = <<>> THEN current
  ELSE IF current.t \in {"null", "undef"} THEN Undefined
  ELSE IF IsDigits(keys[1])
       THEN IF current.t = "arr"
            THEN Call2(Walk, Index(current, ParseInt(keys[1])), Tail(keys))
            ELSE Undefined
       ELSE Call2(Walk, Prop(current, Flat(keys[1])), Tail(keys))

getNestedValue(obj, path) == Call2(Walk, obj, Split(path))

\* the first position >= from that holds "}", or 0
FirstClose(s, from) ==
  LET cs == {k \in from..Len(s) : s[k] = "}"} IN
  IF cs = {} THEN 0 ELSE CHOOSE k \in cs : \A m \in cs : k <= m

\* does /\{\{([^}]+)\}\}/ match at position p of s; MatchEnd is the position
\* of the last "}" of the match
MatchesAt(s, p) ==
  /\ p + 1 <= Len(s)
  /\ s[p] = "{"
  /\ s[p + 1] = "{"
  /\ LET c == FirstClose(s, p + 2) IN
       /\ c > p + 2
       /\ c + 1 <= Len(s)
       /\ s[c + 1] = "}"

MatchEnd(s, p) == FirstClose(s, p + 2) + 1

\* the replacement callback of substituteInString
Replacement(match, path, context) ==
  LET value == Call2(getNestedValue, context, Trim(path)) IN
  IF value.t # "undef" THEN ToStr(value) ELSE match

\* str.replace(/\{\{([^}]+)\}\}/g, callback), scanning from position p
RECURSIVE ReplaceFrom(_, _, _)
ReplaceFrom(s, p, context) ==
  IF p > Len(s) THEN <<>>
  ELSE IF MatchesAt(s, p)
       THEN LET e == MatchEnd(s, p) IN
            Call3(Replacement, SubSeq(s, p, e), SubSeq(s, p + 2, e - 2), context)
              \o Call3(ReplaceFrom, s, e + 1, context)
       ELSE <<s[p]>> \o Call3(ReplaceFrom, s, p + 1, context)

substituteInString(str, context) ==
  Call1(Norm, Call3(ReplaceFrom, str, 1, context))

\* the keys that result[key] = value creates on const result = {}: the key
\* __proto__ is answered by the setter of Object.prototype, which creates no
\* entry
AssignedKeys(entries) == DOMAIN entries \ {"__proto__"}

RECURSIVE substituteVariables(_, _)
substituteVariables(obj, context) ==
  CASE obj.t = "str" -> Str(Call2(substituteInString, obj.v, context))
    [] obj.t = "arr" ->
         Arr([k \in 1..Len(obj.v) |->
                Call2(substituteVariables, obj.v[k], context)])
    [] obj.t = "obj" ->
         Obj([k \in AssignedKeys(obj.v) |->
                Call2(substituteVariables, obj.v[k], context)])
    [] OTHER -> obj

\* ------------------------------------------------------------------------
\* Action handlers (src/lib/actionHandlers)
\* ------------------------------------------------------------------------
\* !value
Falsy(val) ==
  \/ val.t \in {"undef", "null"}
  \/ val = Str(<<>>)
  \/ val = Num(0)
  \/ val = Bool(FALSE)

\* what a handler hands back to executeAction; effect names the write the
\* handler made to the Notification sink, handler the handler that ran and
\* service what the external service did during the handler's call of it
Ok(data, effect) ==
  [kind |-> "return", success |-> TRUE, data |-> data, error |-> Undefined,
   effect |-> effect, handler |-> "none", service |-> "none"]
Fail(message) ==
  [kind |-> "return", success |-> FALSE, data |-> Undefined,
   error |-> Msg(message), effect |-> "none", handler |-> "none",
   service |-> "none"]
Throw(message) ==
  [kind |-> "throw", success |-> FALSE, data |-> Undefined,
   error |-> Msg(message), effect |-> "none", handler |-> "none",
   service |-> "none"]
\* the awaited call never settles
Hang ==
  [kind |-> "hang", success |-> FALSE, data |-> Undefined, error |-> Undefined,
   effect |-> "none", handler |-> "none", service |-> "none"]

\* the external service answers the call, refuses it, or never answers
ServiceBehaviours == {"answers", "refuses", "silent"}

\* the outcomes of a handler while the external service behaves as given
During(service, outcomes) == {[o EXCEPT !.service = service] : o \in outcomes}

\* the outcomes of the handler registered under a type
Handled(handler, outcomes) == {[o EXCEPT !.handler = handler] : o \in outcomes}

\* error messages of the external services and of the stores
ExternalErrors == {"connect ECONNREFUSED"}
StoreErrors == {"Can't reach database server"}
DestructureError == "Cannot destructure property of undefined"
TimeoutErrorMessage == "The operation was aborted due to timeout"

executeEmailAction(config, context) ==
  IF config.t \in {"undef", "null"}
  THEN {Fail("Email action failed: " \o DestructureError)}
  ELSE LET provider == Prop(config, "provider")
           to == Prop(config, "to")
           subject == Prop(config, "subject")
           body == Prop(config, "body")
           from == Prop(config, "from")
       IN
       IF Falsy(provider) \/ Falsy(to) \/ Falsy(subject) \/ Falsy(body)
       THEN {Fail("Missing required email configuration: provider, to, subject, body")}
       ELSE IF provider \notin {Str(<<"gmail">>), Str(<<"sendgrid">>), Str(<<"smtp">>)}
       THEN {Fail("Unsupported email provider: " \o JsString(provider))}
       ELSE IF provider = Str(<<"smtp">>) /\ Falsy(from)
       THEN {Fail("From address is required for SMTP provider")}
       ELSE {Fail("Failed to create email transporter for provider: " \o JsString(provider))}
            \cup
            (IF body.t \notin {"str", "arr"}
             THEN {Fail("Email action failed: body.includes is not a function")}
             ELSE \* transporter.sendMail is given no timeout: with a silent
                  \* server the call ends when the mail library gives up,
                  \* if it does
                  During("answers",
                         {Ok(Obj([messageId |-> Str(<<"msg-1">>), provider |-> provider,
                                  to |-> to, subject |-> subject]), "none")})
                    \cup During("refuses",
                                {Fail("Email action failed: " \o e) : e \in ExternalErrors})
                    \cup During("silent",
                                {Hang, Fail("Email action failed: Connection timeout")}))

executeWebhookAction(config, context) ==
  IF config.t \in {"undef", "null"}
  THEN {Fail("Webhook action failed: " \o DestructureError)}
  ELSE IF Falsy(Prop(config, "url"))
  THEN {Fail("Webhook URL is required")}
  ELSE IF Prop(config, "method").t \notin {"undef", "str"}
  THEN {Fail("Webhook action failed: method.toUpperCase is not a function")}
  ELSE LET timeout == Prop(config, "timeout") IN
       During("answers",
              {Ok(Obj([status |-> Num(200), statusText |-> Str(<<"OK">>),
                       headers |-> EmptyObj,
                       response |-> Obj([id |-> Str(<<"42">>)])]), "none"),
               [Fail("Webhook request failed with status 500: Internal Server Error")
                  EXCEPT !.data = Obj([status |-> Num(500),
                                       statusText |-> Str(<<"Internal Server Error">>),
                                       response |-> Str(<<>>)])]})
         \cup During("refuses",
                     {Fail("Webhook action failed: " \o e) : e \in ExternalErrors})
         \* AbortSignal.timeout(timeout) ends the request; the handler
         \* tells a timeout by error.name === "AbortError", and the error
         \* of a timed out signal is named AbortError or TimeoutError,
         \* depending on the runtime
         \cup During("silent",
                     {Fail("Webhook request timed out after "
                             \o (IF Falsy(timeout) THEN "30000" ELSE JsString(timeout))
                             \o "ms"),
                      Fail("Webhook action failed: " \o TimeoutErrorMessage)})

\* the value of Date.now() in a mock record id
MockNow == "1700000000000"

executeInsert(table, data) ==
  IF table \in {Str(<<"customers">>), Str(<<"logs">>)}
  THEN \* rows of the user and execution tables
       (IF data.t \in {"undef", "null"}
        THEN {Fail("Insert operation failed: Cannot read properties of undefined")}
        ELSE {Ok(Obj([operation |-> Str(<<"insert">>), table |-> table,
                      record |-> data, id |-> Str(<<"row-1">>)]),
                 IF table = Str(<<"logs">>) THEN "log_entry" ELSE "none")})
       \cup {Fail("Insert operation failed: " \o e) : e \in StoreErrors}
  ELSE {Ok(Obj([operation |-> Str(<<"insert">>), table |-> table,
                record |-> data, id |-> Str(<<"mock_" \o MockNow>>)]), "none")}

\* the tables executeUpdate and executeDelete reach through prisma
StoredTables == {Str(<<"users">>), Str(<<"workflows">>)}

\* executeUpdate: a row of users or workflows is updated by conditions.id,
\* whoever owns it; for any other table the answer is a mock
executeUpdate(table, data, conditions) ==
  IF table \in StoredTables /\ ~Falsy(Prop(conditions, "id"))
  THEN {Ok(Obj([operation |-> Str(<<"update">>), table |-> table,
                conditions |-> conditions]), "update_row"),
        Fail("Update operation failed: Record to update not found.")}
       \cup {Fail("Update operation failed: " \o e) : e \in StoreErrors}
  ELSE {Ok(Obj([operation |-> Str(<<"update">>), table |-> table,
                conditions |-> conditions]), "none")}

\* executeDelete: a row of users or workflows is deleted by conditions.id,
\* whoever owns it; for any other table the answer is a mock
executeDelete(table, conditions) ==
  IF table \in StoredTables /\ ~Falsy(Prop(conditions, "id"))
  THEN {Ok(Obj([operation |-> Str(<<"delete">>), table |-> table,
                conditions |-> conditions]), "delete_row"),
        Fail("Delete operation failed: Record to delete does not exist.")}
       \cup {Fail("Delete operation failed: " \o e) : e \in StoreErrors}
  ELSE {Ok(Obj([operation |-> Str(<<"delete">>), table |-> table,
                conditions |-> conditions]), "none")}

executeDatabaseAction(config, context) ==
  IF config.t \in {"undef", "null"}
  THEN {Fail("Database action failed: " \o DestructureError)}
  ELSE LET operation == Prop(config, "operation")
           table == Prop(config, "table")
           data == Prop(config, "data")
           conditions == Prop(config, "conditions")
       IN
       IF Falsy(operation) THEN {Fail("Database operation is required")}
       ELSE IF operation = Str(<<"insert">>) THEN executeInsert(table, data)
       ELSE IF operation = Str(<<"update">>) THEN executeUpdate(table, data, conditions)
       ELSE IF operation = Str(<<"delete">>) THEN executeDelete(table, conditions)
       ELSE IF operation = Str(<<"find">>)
       THEN {Ok(Obj([operation |-> operation, table |-> table,
                     conditions |-> conditions]), "none"),
             Fail(JsString(operation) \o " operation failed")}
       ELSE {Fail("Unsupported database operation: " \o JsString(operation))}

executeSMSAction(config, context) ==
  IF config.t \in {"undef", "null"}
  THEN {Fail("SMS action failed: " \o DestructureError)}
  ELSE LET provider == Prop(config, "provider")
           to == Prop(config, "to")
           message == Prop(config, "message")
       IN
       IF Falsy(provider) \/ Falsy(to) \/ Falsy(message)
       THEN {Fail("Missing required SMS configuration: provider, to, message")}
       ELSE IF provider # Str(<<"twilio">>)
       THEN {Fail("Unsupported SMS provider: " \o JsString(provider))}
       ELSE {Fail("Twilio integration not found"),
             Fail("Invalid Twilio credentials"),
             Ok(Obj([provider |-> Str(<<"twilio">>), messageId |-> Str(<<"SM1">>),
                     to |-> to, status |-> Str(<<"sent">>)]), "none")}
            \cup {Fail("Twilio SMS failed: " \o e) : e \in StoreErrors}

\* the handler answers without writing a notification
executeNotificationAction_Mock(config, context) ==
  IF config.t \in {"undef", "null"}
  THEN {Fail("Notification action failed: " \o DestructureError)}
  ELSE {Ok(Obj([message |-> Str(<<"Notification sent">>)]), "none")}

executeNotificationAction(config, context) ==
  IF config.t \in {"undef", "null"}
  THEN {Fail("Notification action failed: " \o DestructureError)}
  ELSE {Ok(Obj([message |-> Str(<<"Notification sent">>)]), "workflow_success")}
       \cup {Fail("Notification action failed: " \o e) : e \in StoreErrors}

\* the handler without its try and catch
executeDelayAction_NoCatch(config, context) ==
  IF config.t \in {"undef", "null"}
  THEN {Throw("Cannot read properties of undefined (reading 'duration')")}
  ELSE {Ok(Obj([message |-> Str(<<"Delayed for 1000ms">>)]), "none")}

executeDelayAction(config, context) ==
  IF config.t \in {"undef", "null"}
  THEN {Fail("Delay action failed: " \o DestructureError)}
  ELSE LET duration == Prop(config, "duration")
           delayMs == IF Falsy(duration) THEN "1000" ELSE JsString(duration)
       IN {Ok(Obj([message |-> Str(<<"Delayed for " \o delayMs \o "ms">>)]), "none")}

\* an action of a type that is not registered is taken as done
executeAction_SkipsUnknown(action, context) ==
  IF action.t \in {"undef", "null"}
  THEN {Throw("Cannot destructure property 'type' of 'action' as it is null.")}
  ELSE LET type == Prop(action, "type")
           config == Prop(action, "config")
       IN
       CASE type = Str(<<"email">>) ->
              Handled("email", executeEmailAction(config, context))
         [] type = Str(<<"webhook">>) ->
              Handled("webhook", executeWebhookAction(config, context))
         [] type = Str(<<"database">>) ->
              Handled("database", executeDatabaseAction(config, context))
         [] type = Str(<<"sms">>) ->
              Handled("sms", executeSMSAction(config, context))
         [] type = Str(<<"notification">>) ->
              Handled("notification", executeNotificationAction(config, context))
         [] type = Str(<<"delay">>) ->
              Handled("delay", executeDelayAction(config, context))
         [] OTHER -> {Ok(Undefined, "none")}

\* the outcomes of executeAction(action, context)
executeAction(action, context) ==
  IF action.t \in {"undef", "null"}
  THEN {Throw("Cannot destructure property 'type' of 'action' as it is null.")}
  ELSE LET type == Prop(action, "type")
           config == Prop(action, "config")
       IN
       CASE type = Str(<<"email">>) ->
              Handled("email", executeEmailAction(config, context))
         [] type = Str(<<"webhook">>) ->
              Handled("webhook", executeWebhookAction(config, context))
         [] type = Str(<<"database">>) ->
              Handled("database", executeDatabaseAction(config, context))
         [] type = Str(<<"sms">>) ->
              Handled("sms", executeSMSAction(config, context))
         [] type = Str(<<"notification">>) ->
              Handled("notification", executeNotificationAction(config, context))
         [] type = Str(<<"delay">>) ->
              Handled("delay", executeDelayAction(config, context))
         [] OTHER -> {Fail("Unknown action type: " \o JsString(type))}

\* ------------------------------------------------------------------------
\* Inputs: workflow definitions and trigger data
\* ------------------------------------------------------------------------
Placeholder(path) == <<"{", "{">> \o path \o <<"}", "}">>

TriggerOf(type) == Obj([type |-> Str(<<type>>), config |-> EmptyObj])

\* configuration.triggers is z.array(z.any()): known kinds, an unknown kind
\* and an element that is not an object
TriggerChoices ==
  {TriggerOf("webhook"), TriggerOf("manual"), TriggerOf("email"),
   TriggerOf("schedule"), TriggerOf("carrier_pigeon"), Null}

DbInsertAction ==
  Obj([type |-> Str(<<"database">>),
       config |-> Obj([operation |-> Str(<<"insert">>),
                       table |-> Str(<<"orders">>),
                       data |-> Obj([email |-> Str(Placeholder(<<"trigger", ".", "email">>)),
                                     raw |-> Str(Placeholder(<<"triggerData", ".", "email">>))])])])

WebhookRefAction ==
  Obj([type |-> Str(<<"webhook">>),
       config |-> Obj([url |-> Str(<<"http://host/hook">>),
                       ref |-> Str(Placeholder(<<"action_0_result", ".", "id">>)),
                       via |-> Str(Placeholder(<<"variables", ".", "action_0_result", ".", "id">>))])])

NotificationAction ==
  Obj([type |-> Str(<<"notification">>),
       config |-> Obj([message |-> Str(<<"done", " ">>
                                         \o Placeholder(<<"stepResults", ".", "action_0", ".", "id">>))])])

DelayAction ==
  Obj([type |-> Str(<<"delay">>), config |-> Obj([duration |-> Num(50)])])

EmailAction ==
  Obj([type |-> Str(<<"email">>),
       config |-> Obj([provider |-> Str(<<"gmail">>),
                       to |-> Str(Placeholder(<<"triggerData", ".", "email">>)),
                       subject |-> Str(<<"Welcome">>),
                       body |-> Str(<<"Hello">>),
                       timeout |-> Num(10)])])

UnknownAction == Obj([type |-> Str(<<"x">>), config |-> EmptyObj])

\* configuration.actions is z.array(z.any())
ActionChoices ==
  {DbInsertAction, WebhookRefAction, NotificationAction, DelayAction,
   EmailAction, UnknownAction, Null}

SeqsUpTo(S, n) == UNION {[1..k -> S] : k \in 0..n}

Workflows ==
  {[id |-> "wf1", userId |-> "u1", name |-> "Flow",
    configuration |-> [triggers |-> ts, actions |-> as]] :
     ts \in SeqsUpTo(TriggerChoices, MaxTriggers),
     as \in SeqsUpTo(ActionChoices, MaxActions)}

TriggerDataChoices ==
  {EmptyObj, Obj([email |-> Str(<<"a@b.com">>)])}

\* ------------------------------------------------------------------------
\* workflowEngine.ts
\* ------------------------------------------------------------------------
VARIABLES
  workflow,        \* the stored definition handed to executeWorkflow
  triggerData,     \* the input of the run
  pc,              \* position of the run: start, triggers, actions, update,
                   \* notify, returned, raised, hung
  tIdx,            \* index of the next trigger (from 1)
  aIdx,            \* index of the next action (from 1; the code's i is aIdx - 1)
  context,         \* the WorkflowContext of the run
  execId,          \* execution.id
  executions,      \* the Execution store: id -> row
  notifications,   \* the Notification sink: rows in order of creation
  pending,         \* the call of updateExecutionStatus in progress
  result,          \* what executeWorkflow handed to its caller
  dispatched,      \* the processed actions handed to executeAction, in order
  validated,       \* the triggers handed to validateTrigger, in order
  writeLog,        \* the writes to stepResults and variables, in order
  terminalWrites,  \* number of status writes to the run's Execution row
  storeFailed,     \* a call of the Execution store or Notification sink raised
  invoked,         \* a direct call of substituteVariables or executeAction
  callResult,      \* what that call handed back
  self,            \* the run whose continuation the event loop is executing
  parked,          \* the other run in flight, waiting at its awaited call
  subscription,    \* user.subscriptionId of the workflows' owner
  currentUsage,    \* user.currentUsage of the workflows' owner
  priorRuns,       \* the runs of the owner's workflows before the requests
  requests,        \* the POST requests being served: route, position and
                   \* the user row the handler read
  started,         \* the calls of executeWorkflow made by the requests
  workflows,       \* the Workflow table: rows in order of creation
  integrations,    \* the Integration table: rows in order of creation
  users            \* the User table: id -> row

vars ==
  <<workflow, triggerData, pc, tIdx, aIdx, context, execId, executions,
    notifications, pending, result, dispatched, validated, writeLog,
    terminalWrites, storeFailed, invoked, callResult, self, parked,
    subscription, currentUsage, priorRuns, requests, started, workflows,
    integrations, users>>

\* the variables of two runs in flight
runVars == <<self, parked>>

\* the variables of the routes that call executeWorkflow
usageVars ==
  <<subscription, currentUsage, priorRuns, requests, started, workflows,
    integrations, users>>

\* the variables of a direct call
unitVars == <<invoked, callResult>>

\* the variables of executeWorkflow and of the stores
engineVars ==
  <<workflow, triggerData, pc, tIdx, aIdx, context, execId, executions,
    notifications, pending, result, dispatched, validated, writeLog,
    terminalWrites, storeFailed>>

triggers == workflow.configuration.triggers
actions == workflow.configuration.actions

NoCall == [status |-> "none", error |-> Null, output |-> Null, site |-> "none",
           ret |-> [kind |-> "none"]]

Call(status, error, output, site, ret) ==
  [status |-> status, error |-> error, output |-> output, site |-> site, ret |-> ret]

\* the value carries the id generated at entry, not the id of the row
ReturnValue_GeneratedId(success, error, data) ==
  [kind |-> "value", success |-> success, error |-> error, data |-> data,
   executionId |-> "exec_generated"]

ReturnValue(success, error, data) ==
  [kind |-> "value", success |-> success, error |-> error, data |-> data,
   executionId |-> execId]

KnownTriggerTypes ==
  {Str(<<"webhook">>), Str(<<"manual">>), Str(<<"email">>), Str(<<"schedule">>)}

\* the email trigger, whose check is left to be implemented, is refused
validateTrigger_EmailRefused(trigger, ctx) ==
  IF trigger.t \in {"undef", "null"}
  THEN Throw("Cannot read properties of null (reading 'type')")
  ELSE IF Prop(trigger, "type") \in KnownTriggerTypes \ {Str(<<"email">>)}
  THEN Ok(Prop(ctx, "triggerData"), "none")
  ELSE Fail("Unknown trigger type: " \o JsString(Prop(trigger, "type")))

\* every trigger object validates, whatever its type
validateTrigger_AcceptsAny(trigger, ctx) ==
  IF trigger.t \in {"undef", "null"}
  THEN Throw("Cannot read properties of null (reading 'type')")
  ELSE Ok(Prop(ctx, "triggerData"), "none")

validateTrigger(trigger, ctx) ==
  IF trigger.t \in {"undef", "null"}
  THEN Throw("Cannot read properties of null (reading 'type')")
  ELSE IF Prop(trigger, "type") \in KnownTriggerTypes
  THEN Ok(Prop(ctx, "triggerData"), "none")
  ELSE Fail("Unknown trigger type: " \o JsString(Prop(trigger, "type")))

\* obj[key] = value
SetProp(obj, key, value) == Obj((key :> value) @@ obj.v)

\* context.stepResults[key] = value
SetStepResult(ctx, key, value) ==
  SetProp(ctx, "stepResults", SetProp(Prop(ctx, "stepResults"), key, value))

\* context.variables[key] = value
SetVariable(ctx, key, value) ==
  SetProp(ctx, "variables", SetProp(Prop(ctx, "variables"), key, value))

\* the action loop runs before the trigger loop
Continue_ActionsFirst(t, a, ctx) ==
  IF a <= Len(actions) THEN pc' = "actions" /\ pending' = NoCall
  ELSE IF t <= Len(triggers) THEN pc' = "triggers" /\ pending' = NoCall
  ELSE /\ pc' = "update"
       /\ pending' = Call("completed", Null, Prop(ctx, "stepResults"), "complete",
                          ReturnValue(TRUE, Undefined, Prop(ctx, "stepResults")))

\* the loops of executeWorkflow, from trigger t and action a on: the next
\* awaited call
Continue(t, a, ctx) ==
  IF t <= Len(triggers) THEN pc' = "triggers" /\ pending' = NoCall
  ELSE IF a <= Len(actions) THEN pc' = "actions" /\ pending' = NoCall
  ELSE /\ pc' = "update"
       /\ pending' = Call("completed", Null, Prop(ctx, "stepResults"), "complete",
                          ReturnValue(TRUE, Undefined, Prop(ctx, "stepResults")))

\* the catch of the action loop hands the error on as it came
InnerCatch_RawMessage(message) ==
  /\ pc' = "update"
  /\ pending' = Call("failed", Msg(message), Null, "innerCatch",
                     ReturnValue(FALSE, Msg(message), Undefined))

\* catch (error) of the action loop
InnerCatch(message) ==
  LET errorMessage == "Action " \o ToString(aIdx) \o " error: " \o message IN
  /\ pc' = "update"
  /\ pending' = Call("failed", Msg(errorMessage), Null, "innerCatch",
                     ReturnValue(FALSE, Msg(errorMessage), Undefined))

\* executeWorkflow without its catch: the error leaves the function
OuterCatch_Rethrows(message) ==
  /\ pc' = "raised"
  /\ pending' = NoCall

\* catch (error) of executeWorkflow
OuterCatch(message) ==
  /\ pc' = "update"
  /\ pending' = Call("failed", Msg(message), Null, "outerCatch",
                     ReturnValue(FALSE, Msg(message), Undefined))

\* an error raised by the call of updateExecutionStatus made at pending.site
Raise(message) ==
  CASE pending.site = "action" -> InnerCatch(message) /\ result' = result
    [] pending.site \in {"trigger", "innerCatch", "complete"} ->
         OuterCatch(message) /\ result' = result
    [] pending.site = "outerCatch" ->
         /\ pc' = "raised"
         /\ pending' = NoCall
         /\ result' = [kind |-> "raised", message |-> message]

Return ==
  /\ pc' = "returned"
  /\ result' = pending.ret
  /\ pending' = NoCall

\* every execution.create gets the same id
NewExecutionId_Constant == "exec-1"

\* the id the store gives a new Execution row
NewExecutionId == "exec-" \o ToString(Cardinality(DOMAIN executions) + 1)

\* no direct call is made
NoCallMade ==
  /\ invoked = [fn |-> "none"]
  /\ callResult = [kind |-> "none"]

\* executeWorkflow has just been called, on empty stores
RunStart ==
  /\ pc = "start"
  /\ tIdx = 1
  /\ aIdx = 1
  /\ context = Undefined
  /\ execId = "none"
  /\ executions = <<>>
  /\ notifications = <<>>
  /\ pending = NoCall
  /\ result = [kind |-> "none"]
  /\ dispatched = <<>>
  /\ validated = <<>>
  /\ writeLog = <<>>
  /\ terminalWrites = 0
  /\ storeFailed = FALSE

\* one run is in flight
SingleRun ==
  /\ self = 1
  /\ parked = [self |-> 0]

\* no request is being served
NoRequests ==
  /\ subscription = "free"
  /\ currentUsage = 0
  /\ priorRuns = 0
  /\ requests = <<>>
  /\ started = 0
  /\ workflows = <<>>
  /\ integrations = <<>>
  /\ users = <<>>

Init ==
  /\ workflow \in Workflows
  /\ triggerData \in TriggerDataChoices
  /\ RunStart
  /\ NoCallMade
  /\ SingleRun
  /\ NoRequests

\* ------------------------------------------------------------------------
\* Runs whose triggers carry a config and whose trigger data is any value
\* ------------------------------------------------------------------------
TriggerConfigs ==
  {EmptyObj, Null, Str(<<"*/5 * * * *">>), Obj([cron |-> Str(<<"*/5 * * * *">>)])}

ConfiguredTriggers ==
  {Obj([type |-> ty, config |-> c]) : ty \in KnownTriggerTypes, c \in TriggerConfigs}
    \cup {Obj([type |-> ty]) : ty \in KnownTriggerTypes}
    \cup {TriggerOf("carrier_pigeon")}

\* body.data || {} of the manual route is any truthy value of the body
RawTriggerData ==
  {EmptyObj, Obj([email |-> Str(<<"a@b.com">>)]), Str(<<"ping">>), Num(7),
   Arr(<<Num(1), Str(<<"x">>)>>)}

TriggerInit ==
  /\ workflow \in
       {[id |-> "wf1", userId |-> "u1", name |-> "Flow",
         configuration |-> [triggers |-> ts, actions |-> as]] :
          ts \in SeqsUpTo(ConfiguredTriggers, MaxTriggers),
          as \in {<<>>, <<DbInsertAction>>}}
  /\ triggerData \in RawTriggerData
  /\ RunStart
  /\ NoCallMade
  /\ SingleRun
  /\ NoRequests

\* prisma.execution.create and the construction of the context
CreateExecution ==
  /\ pc = "start"
  /\ \/ LET ctx == Obj([workflowId |-> Str(<<workflow.id>>),
                        userId |-> Str(<<workflow.userId>>),
                        triggerData |-> triggerData,
                        variables |-> Obj([trigger |-> triggerData]),
                        stepResults |-> EmptyObj])
        IN
        /\ execId' = NewExecutionId
        /\ executions' = (NewExecutionId :>
                            [workflowId |-> workflow.id, status |-> "running",
                             startTime |-> [t |-> "date"], endTime |-> Null,
                             input |-> triggerData, output |-> Null,
                             error |-> Null]) @@ executions
        /\ context' = ctx
        /\ writeLog' = Append(writeLog, [map |-> "variables", key |-> "trigger",
                                         step |-> [kind |-> "init", index |-> 0], value |-> triggerData])
        /\ Continue(1, 1, ctx)
        /\ UNCHANGED <<result, storeFailed>>
     \/ \E e \in StoreErrors :
          /\ pc' = "raised"
          /\ result' = [kind |-> "raised", message |-> e]
          /\ storeFailed' = TRUE
          /\ UNCHANGED <<execId, executions, context, writeLog, pending>>
  /\ UNCHANGED <<workflow, triggerData, tIdx, aIdx, notifications, dispatched,
                 validated, terminalWrites>>

\* one turn of the trigger loop
ValidateTriggerStep ==
  /\ pc = "triggers"
  /\ LET trigger == triggers[tIdx]
         triggerResult == validateTrigger(trigger, context)
     IN
     /\ validated' = Append(validated, tIdx)
     /\ CASE triggerResult.kind = "throw" ->
               /\ OuterCatch(triggerResult.error.v[1])
               /\ UNCHANGED <<context, tIdx, writeLog>>
          [] triggerResult.kind = "return" /\ ~triggerResult.success ->
               /\ pc' = "update"
               /\ pending' = Call("failed", triggerResult.error, Null, "trigger",
                                  ReturnValue(FALSE, triggerResult.error, Undefined))
               /\ UNCHANGED <<context, tIdx, writeLog>>
          [] OTHER ->
               LET key == "trigger_" \o JsString(Prop(trigger, "type"))
                   ctx == SetStepResult(context, key, triggerResult.data)
               IN
               /\ context' = ctx
               /\ writeLog' = Append(writeLog, [map |-> "stepResults", key |-> key,
                                                step |-> [kind |-> "trigger", index |-> tIdx],
                                                value |-> triggerResult.data])
               /\ tIdx' = tIdx + 1
               /\ Continue(tIdx + 1, aIdx, ctx)
  /\ UNCHANGED <<workflow, triggerData, aIdx, execId, executions, notifications,
                 result, dispatched, terminalWrites, storeFailed>>

\* the row executeInsert writes for the table "logs"
LogEntry(config) ==
  LET data == Prop(config, "data")
      workflowId == Prop(data, "workflowId")
  IN
  [workflowId |-> IF Falsy(workflowId) THEN "temp" ELSE JsString(workflowId),
   status |-> "completed",
   startTime |-> [t |-> "date"], endTime |-> Null,
   input |-> IF Falsy(Prop(data, "input")) THEN EmptyObj ELSE Prop(data, "input"),
   output |-> IF Falsy(Prop(data, "output")) THEN EmptyObj ELSE Prop(data, "output"),
   error |-> Null]

\* the row executeNotificationAction writes
SuccessNotification(config, ctx) ==
  [userId |-> JsString(Prop(ctx, "userId")),
   type |-> "workflow_success",
   message |-> IF Falsy(Prop(config, "message"))
               THEN Msg("Workflow completed successfully")
               ELSE Prop(config, "message"),
   metadata |-> [workflowId |-> JsString(Prop(ctx, "workflowId")),
                 context |-> Prop(ctx, "stepResults")]]

\* the writes a handler made to the stores while it ran
HandlerWrites(actionResult, action, ctx) ==
  /\ notifications' =
       IF actionResult.effect = "workflow_success"
       THEN Append(notifications, SuccessNotification(Prop(action, "config"), ctx))
       ELSE notifications
  /\ executions' =
       IF actionResult.effect = "log_entry"
       THEN (NewExecutionId :> LogEntry(Prop(action, "config"))) @@ executions
       ELSE executions

\* every action stores its result under the key of the first action
ActionStepKey_NoIndex(i) == "action_" \o ToString(0)

\* the keys an action's result is stored under
ActionStepKey(i) == "action_" \o ToString(i)
ActionVariableKey(i) == "action_" \o ToString(i) \o "_result"

\* a failed action is skipped and the loop goes on
ActionFailed_Continues(i, actionResult) ==
  /\ aIdx' = aIdx + 1
  /\ Continue(tIdx, aIdx + 1, context)
  /\ UNCHANGED <<context, writeLog>>

\* if (!actionResult.success): the run is failed and executeWorkflow returns
ActionFailed(i, actionResult) ==
  /\ pc' = "update"
  /\ pending' =
       Call("failed",
            IF actionResult.error.t = "undef" THEN Null ELSE actionResult.error,
            Null, "action",
            ReturnValue(FALSE,
                        Msg("Action " \o ToString(i + 1) \o " failed: "
                              \o JsString(actionResult.error)),
                        Undefined))
  /\ UNCHANGED <<context, aIdx, writeLog>>

\* the action's result is stored and the loop goes on
ActionSucceeded(i, actionResult) ==
  LET ctx == SetVariable(SetStepResult(context, ActionStepKey(i), actionResult.data),
                         ActionVariableKey(i), actionResult.data)
  IN
  /\ context' = ctx
  /\ writeLog' = writeLog \o
       <<[map |-> "stepResults", key |-> ActionStepKey(i),
          step |-> [kind |-> "action", index |-> i], value |-> actionResult.data],
         [map |-> "variables", key |-> ActionVariableKey(i),
          step |-> [kind |-> "action", index |-> i], value |-> actionResult.data]>>
  /\ aIdx' = aIdx + 1
  /\ Continue(tIdx, aIdx + 1, ctx)

\* one turn of the action loop
DispatchActionStep ==
  /\ pc = "actions"
  /\ LET i == aIdx - 1
         action == actions[aIdx]
     IN
     \E processedAction \in {substituteVariables(action, context)} :
     \E actionResult \in executeAction(processedAction, context) :
       /\ dispatched' =
            Append(dispatched,
                   [index |-> i, action |-> processedAction,
                    outcome |-> IF actionResult.kind \in {"throw", "hang"}
                                THEN actionResult.kind
                                ELSE IF actionResult.success THEN "success"
                                ELSE "failure",
                    error |-> actionResult.error,
                    handler |-> actionResult.handler,
                    service |-> actionResult.service])
       /\ HandlerWrites(actionResult, processedAction, context)
       /\ CASE actionResult.kind = "throw" ->
                 /\ InnerCatch(actionResult.error.v[1])
                 /\ UNCHANGED <<context, aIdx, writeLog>>
            [] actionResult.kind = "hang" ->
                 \* await executeAction(...) never resumes
                 /\ pc' = "hung"
                 /\ UNCHANGED <<pending, context, aIdx, writeLog>>
            [] actionResult.kind = "return" /\ ~actionResult.success ->
                 ActionFailed(i, actionResult)
            [] OTHER -> ActionSucceeded(i, actionResult)
  /\ UNCHANGED <<workflow, triggerData, tIdx, execId, result,
                 validated, terminalWrites, storeFailed>>

\* the update leaves endTime out
UpdatedRow_NoEndTime(row, call) ==
  [row EXCEPT !.status = call.status,
              !.error = call.error,
              !.output = call.output]

\* the data of prisma.execution.update in updateExecutionStatus
UpdatedRow(row, call) ==
  [row EXCEPT !.status = call.status,
              !.endTime = [t |-> "date"],
              !.error = call.error,
              !.output = call.output]

\* a notification is written for every status
NotifiesOn_Always(status) == TRUE

\* if (status === "failed")
NotifiesOn(status) == status = "failed"

\* updateExecutionStatus: prisma.execution.update
UpdateExecution ==
  /\ pc = "update"
  /\ \/ /\ executions' =
             [executions EXCEPT ![execId] = UpdatedRow(@, pending)]
        /\ terminalWrites' = terminalWrites + 1
        /\ IF NotifiesOn(pending.status)
           THEN pc' = "notify" /\ UNCHANGED <<pending, result>>
           ELSE Return
        /\ UNCHANGED storeFailed
     \/ \E e \in StoreErrors :
          /\ Raise(e)
          /\ storeFailed' = TRUE
          /\ UNCHANGED <<executions, terminalWrites>>
  /\ UNCHANGED <<workflow, triggerData, tIdx, aIdx, context, execId,
                 notifications, dispatched, validated, writeLog>>

\* include: { workflow: true } of prisma.execution.findUnique: the stored
\* workflow with the given id
StoredWorkflow(id) ==
  IF parked.self # 0 /\ workflow.id # id THEN parked.workflow ELSE workflow

\* the metadata names the workflow where the execution belongs
ErrorNotification_WrongId(executionId, error) ==
  [userId |-> workflow.userId,
   type |-> "workflow_error",
   message |-> Msg("Workflow \"" \o workflow.name \o "\" failed: " \o JsString(error)),
   metadata |-> [workflowId |-> executions[executionId].workflowId,
                 executionId |-> executions[executionId].workflowId]]

\* the row updateExecutionStatus writes for a failed execution
ErrorNotification(executionId, error) ==
  [userId |-> StoredWorkflow(executions[executionId].workflowId).userId,
   type |-> "workflow_error",
   message |-> Msg("Workflow \""
                     \o StoredWorkflow(executions[executionId].workflowId).name
                     \o "\" failed: " \o JsString(error)),
   metadata |-> [workflowId |-> executions[executionId].workflowId,
                 executionId |-> executionId]]

\* updateExecutionStatus: prisma.execution.findUnique and
\* prisma.notification.create, for status failed
NotifyFailure ==
  /\ pc = "notify"
  /\ \/ /\ notifications' =
             IF execId \in DOMAIN executions
             THEN Append(notifications, ErrorNotification(execId, pending.error))
             ELSE notifications
        /\ Return
        /\ UNCHANGED storeFailed
     \/ \E e \in StoreErrors :
          /\ Raise(e)
          /\ storeFailed' = TRUE
          /\ UNCHANGED notifications
  /\ UNCHANGED <<workflow, triggerData, tIdx, aIdx, context, execId, executions,
                 dispatched, validated, writeLog, terminalWrites>>

Next ==
  \/ CreateExecution /\ UNCHANGED <<unitVars, runVars, usageVars>>
  \/ ValidateTriggerStep /\ UNCHANGED <<unitVars, runVars, usageVars>>
  \/ DispatchActionStep /\ UNCHANGED <<unitVars, runVars, usageVars>>
  \/ UpdateExecution /\ UNCHANGED <<unitVars, runVars, usageVars>>
  \/ NotifyFailure /\ UNCHANGED <<unitVars, runVars, usageVars>>

Spec == Init /\ [][Next]_vars

\* the event loop runs every continuation whose awaited call has settled
FairSpec == Spec /\ WF_vars(Next)

TriggerSpec == TriggerInit /\ [][Next]_vars

\* ------------------------------------------------------------------------
\* Direct calls of the resolver and of the dispatcher
\* ------------------------------------------------------------------------
\* the context of the documented path resolution example
ExampleContext ==
  Obj([trigger |-> Obj([email |-> Str(<<"a@b.com">>),
                        tags |-> Arr(<<Str(<<"x">>), Str(<<"y">>)>>)])])

ResolverContexts ==
  {ExampleContext,
   EmptyObj,
   Obj([trigger |-> Null]),
   Obj([trigger |-> Obj([email |-> Null, tags |-> Arr(<<>>)])]),
   Obj([trigger |-> Str(<<"a@b.com">>)])}

\* the paths written between {{ and }}
ResolverPaths ==
  {<<"trigger", ".", "email">>,
   <<"trigger", ".", "tags", ".", "1">>,
   <<"trigger", ".", "tags", ".", "2">>,
   <<"trigger", ".", "tags">>,
   <<"trigger", ".", "tags", ".", "length">>,
   <<"trigger", ".", "missing">>,
   <<"trigger", ".", "missing", ".", "deeper">>,
   <<"trigger", ".", "email", ".", "0">>,
   <<"trigger", ".", "0">>,
   <<"trigger", ".", "constructor">>,
   <<"trigger">>,
   <<"constructor">>,
   <<"toString">>,
   <<" ", "trigger", ".", "email", " ">>}

\* strings with one placeholder, alone and inside text
Templates(path) ==
  {Str(Placeholder(path)),
   Str(<<"Hi", " ">> \o Placeholder(path) \o <<"!">>)}

\* the values handed to substituteVariables: strings, sequences, mappings
\* and scalars
ResolverValues ==
  UNION {Templates(path) : path \in ResolverPaths}
    \cup {Obj([to |-> Str(Placeholder(path)),
               cc |-> Arr(<<Str(Placeholder(path)), Num(7)>>),
               retries |-> Num(3)]) : path \in ResolverPaths}
    \cup {Str(<<"plain">>), Str(<<>>), Str(<<"{", "x", "}">>),
          Str(<<"{", "{", "}", "}">>),
          Num(7), Bool(TRUE), Null, Undefined,
          Arr(<<Num(1), Null, Str(<<"plain">>)>>),
          Arr(<<>>), EmptyObj,
          Obj(("__proto__" :> Str(<<"plain">>)) @@ [to |-> Str(<<"a@b.com">>)]),
          Arr(<<Obj(("__proto__" :> Obj([to |-> Str(<<"a@b.com">>)]))
                      @@ [retries |-> Num(3)])>>)}

ResolverCalls ==
  {[fn |-> "substituteVariables", obj |-> obj, context |-> ctx] :
     obj \in ResolverValues, ctx \in ResolverContexts}

\* the kinds executeAction has a handler for
RegisteredTypes ==
  {Str(<<"email">>), Str(<<"webhook">>), Str(<<"database">>), Str(<<"sms">>),
   Str(<<"notification">>), Str(<<"delay">>)}

\* the type of an action: a registered kind, another string, no string,
\* none at all
DispatchTypes ==
  RegisteredTypes \cup {Str(<<"x">>), Str(<<"Email">>), Num(5), Undefined}

\* the config of an action: missing, null, no mapping, empty, well formed
\* for one of the handlers, or with a field of the wrong kind
DispatchConfigs ==
  {Undefined, Null, Num(5), EmptyObj,
   Obj([provider |-> Str(<<"gmail">>), to |-> Str(<<"a@b.com">>),
        subject |-> Str(<<"Welcome">>), body |-> Str(<<"Hello">>),
        message |-> Str(<<"Hello">>)]),
   Obj([provider |-> Str(<<"gmail">>), to |-> Str(<<"a@b.com">>),
        subject |-> Str(<<"Welcome">>), body |-> Num(5)]),
   Obj([provider |-> Str(<<"smtp">>), to |-> Str(<<"a@b.com">>),
        subject |-> Str(<<"Welcome">>), body |-> Str(<<"Hello">>)]),
   Obj([provider |-> Str(<<"twilio">>), to |-> Str(<<"+15550100">>),
        message |-> Str(<<"Hello">>)]),
   Obj([url |-> Str(<<"http://host/hook">>)]),
   Obj([url |-> Str(<<"http://host/hook">>), timeout |-> Num(10)]),
   Obj([url |-> Str(<<"http://host/hook">>), method |-> Num(5)]),
   Obj([operation |-> Str(<<"insert">>), table |-> Str(<<"logs">>),
        data |-> EmptyObj]),
   Obj([operation |-> Str(<<"insert">>), table |-> Str(<<"logs">>),
        data |-> Obj([workflowId |-> Str(<<"wf1">>),
                      output |-> Obj([note |-> Str(<<"done">>)])])]),
   Obj([operation |-> Str(<<"find">>), table |-> Str(<<"executions">>)]),
   Obj([operation |-> Str(<<"drop">>)]),
   Obj([duration |-> Num(50)])}

DispatchContext ==
  Obj([workflowId |-> Str(<<"wf1">>), userId |-> Str(<<"u1">>),
       triggerData |-> EmptyObj,
       variables |-> Obj([trigger |-> EmptyObj]),
       stepResults |-> EmptyObj])

DispatchCalls ==
  {[fn |-> "executeAction",
    action |-> IF type = Undefined THEN Obj([config |-> config])
               ELSE Obj([type |-> type, config |-> config]),
    context |-> DispatchContext] :
     type \in DispatchTypes, config \in DispatchConfigs}

UnitCalls == ResolverCalls \cup DispatchCalls

UnitInit ==
  /\ workflow = [id |-> "wf1", userId |-> "u1", name |-> "Flow",
                 configuration |-> [triggers |-> <<>>, actions |-> <<>>]]
  /\ triggerData = EmptyObj
  /\ RunStart
  /\ invoked \in UnitCalls
  /\ callResult = [kind |-> "none"]
  /\ SingleRun
  /\ NoRequests

\* substituteVariables(obj, context) is called and returns
CallSubstituteVariables ==
  /\ invoked.fn = "substituteVariables"
  /\ callResult.kind = "none"
  /\ callResult' = [kind |-> "return",
                    value |-> substituteVariables(invoked.obj, invoked.context)]
  /\ UNCHANGED invoked

\* executeAction(action, context) is called and returns, throws or never
\* settles
CallExecuteAction ==
  /\ invoked.fn = "executeAction"
  /\ callResult.kind = "none"
  /\ \E actionResult \in executeAction(invoked.action, invoked.context) :
       /\ callResult' = actionResult
       /\ HandlerWrites(actionResult, invoked.action, invoked.context)
  /\ UNCHANGED <<invoked, workflow, triggerData, pc, tIdx, aIdx, context, execId,
                 pending, result, dispatched, validated, writeLog,
                 terminalWrites, storeFailed>>

UnitNext ==
  \/ CallSubstituteVariables /\ UNCHANGED <<engineVars, runVars, usageVars>>
  \/ CallExecuteAction /\ UNCHANGED <<runVars, usageVars>>

UnitSpec == UnitInit /\ [][UnitNext]_vars

\* ------------------------------------------------------------------------
\* Two runs in flight
\* ------------------------------------------------------------------------
\* what executeWorkflow holds in its own frame, for the run being executed
Active ==
  [self |-> self, workflow |-> workflow, triggerData |-> triggerData, pc |-> pc,
   tIdx |-> tIdx, aIdx |-> aIdx, context |-> context, execId |-> execId,
   pending |-> pending, result |-> result, dispatched |-> dispatched,
   validated |-> validated, writeLog |-> writeLog,
   terminalWrites |-> terminalWrites, storeFailed |-> storeFailed]

\* the frame of a call of executeWorkflow that has just been made
NewRun(id, wf, data) ==
  [self |-> id, workflow |-> wf, triggerData |-> data, pc |-> "start",
   tIdx |-> 1, aIdx |-> 1, context |-> Undefined, execId |-> "none",
   pending |-> NoCall, result |-> [kind |-> "none"], dispatched |-> <<>>,
   validated |-> <<>>, writeLog |-> <<>>, terminalWrites |-> 0,
   storeFailed |-> FALSE]

\* the stored workflows of two owners
ConcurrentWorkflows ==
  {[id |-> "wf1", userId |-> "u1", name |-> "Flow",
    configuration |-> [triggers |-> <<TriggerOf("webhook")>>,
                       actions |-> <<DbInsertAction, NotificationAction>>]],
   [id |-> "wf1", userId |-> "u1", name |-> "Flow",
    configuration |-> [triggers |-> <<TriggerOf("webhook")>>,
                       actions |-> <<UnknownAction>>]],
   [id |-> "wf2", userId |-> "u2", name |-> "Other",
    configuration |-> [triggers |-> <<TriggerOf("carrier_pigeon")>>,
                       actions |-> <<>>]],
   [id |-> "wf2", userId |-> "u2", name |-> "Other",
    configuration |-> [triggers |-> <<TriggerOf("manual")>>,
                       actions |-> <<DbInsertAction>>]]}

\* the trigger data of run 1 and of run 2
RunData(id) ==
  IF id = 1 THEN Obj([email |-> Str(<<"a@b.com">>)])
  ELSE Obj([email |-> Str(<<"c@d.com">>)])

ConcurrentInit ==
  /\ workflow \in ConcurrentWorkflows
  /\ triggerData = RunData(1)
  /\ RunStart
  /\ NoCallMade
  /\ NoRequests
  /\ self = 1
  /\ \E wf \in ConcurrentWorkflows : parked = NewRun(2, wf, RunData(2))

\* the run being executed waits at its awaited call and the event loop
\* takes up the other run
Switch ==
  /\ parked.self # 0
  /\ parked.pc \notin {"returned", "raised", "hung"}
  /\ parked' = Active
  /\ self' = parked.self
  /\ workflow' = parked.workflow
  /\ triggerData' = parked.triggerData
  /\ pc' = parked.pc
  /\ tIdx' = parked.tIdx
  /\ aIdx' = parked.aIdx
  /\ context' = parked.context
  /\ execId' = parked.execId
  /\ pending' = parked.pending
  /\ result' = parked.result
  /\ dispatched' = parked.dispatched
  /\ validated' = parked.validated
  /\ writeLog' = parked.writeLog
  /\ terminalWrites' = parked.terminalWrites
  /\ storeFailed' = parked.storeFailed
  /\ UNCHANGED <<executions, notifications, unitVars, usageVars>>

ConcurrentNext ==
  \/ CreateExecution /\ UNCHANGED <<unitVars, runVars, usageVars>>
  \/ ValidateTriggerStep /\ UNCHANGED <<unitVars, runVars, usageVars>>
  \/ DispatchActionStep /\ UNCHANGED <<unitVars, runVars, usageVars>>
  \/ UpdateExecution /\ UNCHANGED <<unitVars, runVars, usageVars>>
  \/ NotifyFailure /\ UNCHANGED <<unitVars, runVars, usageVars>>
  \/ Switch

ConcurrentSpec == ConcurrentInit /\ [][ConcurrentNext]_vars

\* ------------------------------------------------------------------------
\* The route that creates workflows: POST /api/workflows
\* ------------------------------------------------------------------------
FreeWorkflowLimit == 2
ProWorkflowLimit == 50

\* workflowLimit, for the tiers free and pro
WorkflowLimit(tier) == IF tier = "free" THEN FreeWorkflowLimit ELSE ProWorkflowLimit

\* a row of the Workflow table
WorkflowRow(id, userId) ==
  [id |-> id, userId |-> userId, isActive |-> TRUE, triggerType |-> "manual",
   executionCount |-> 0]

\* prisma.workflow.count({ where: { userId } })
WorkflowCount(userId) ==
  Cardinality({i \in DOMAIN workflows : workflows[i].userId = userId})

\* the session user of the creation requests
SessionUser == "u1"

CreateInit ==
  /\ workflow = [id |-> "wf1", userId |-> "u1", name |-> "Flow",
                 configuration |-> [triggers |-> <<>>, actions |-> <<>>]]
  /\ triggerData = EmptyObj
  /\ RunStart
  /\ NoCallMade
  /\ SingleRun
  /\ subscription \in {"free", "pro"}
  /\ currentUsage = 0
  /\ priorRuns = 0
  /\ started = 0
  /\ \E n \in (WorkflowLimit(subscription) - 2)..WorkflowLimit(subscription) :
       workflows = [i \in 1..n |-> WorkflowRow(i, SessionUser)]
  /\ integrations = <<>>
  /\ users = <<>>
  /\ requests = [q \in 1..MaxRequests |-> [route |-> "create", pc |-> "new", seen |-> 0]]

\* createWorkflowSchema.parse(body) and prisma.user.findUnique: the body is
\* rejected, the user row is missing, or the handler goes on to count
CreateParse(q) ==
  /\ requests[q].route = "create"
  /\ requests[q].pc = "new"
  /\ \E next \in {"invalid", "parsed"} : requests' = [requests EXCEPT ![q].pc = next]
  /\ UNCHANGED <<subscription, currentUsage, priorRuns, started, workflows, integrations, users>>

\* prisma.workflow.count and the check of the workflow limit
CreateCount(q) ==
  /\ requests[q].route = "create"
  /\ requests[q].pc = "parsed"
  /\ requests' =
       [requests EXCEPT ![q].seen = WorkflowCount(SessionUser),
                        ![q].pc = IF WorkflowCount(SessionUser) >= WorkflowLimit(subscription)
                                  THEN "rejected" ELSE "admitted"]
  /\ UNCHANGED <<subscription, currentUsage, priorRuns, started, workflows, integrations, users>>

\* prisma.workflow.create
CreateWorkflow(q) ==
  /\ requests[q].route = "create"
  /\ requests[q].pc = "admitted"
  /\ workflows' = Append(workflows, WorkflowRow(Len(workflows) + 1, SessionUser))
  /\ requests' = [requests EXCEPT ![q].pc = "created"]
  /\ UNCHANGED <<subscription, currentUsage, priorRuns, started, integrations, users>>

CreateNext ==
  \/ \E q \in DOMAIN requests : CreateParse(q) /\ UNCHANGED <<engineVars, unitVars, runVars>>
  \/ \E q \in DOMAIN requests : CreateCount(q) /\ UNCHANGED <<engineVars, unitVars, runVars>>
  \/ \E q \in DOMAIN requests : CreateWorkflow(q) /\ UNCHANGED <<engineVars, unitVars, runVars>>

CreateSpec == CreateInit /\ [][CreateNext]_vars

\* ------------------------------------------------------------------------
\* The routes that call executeWorkflow: POST /api/workflows/[id]/execute
\* and POST /api/webhooks/[workflowId]
\* ------------------------------------------------------------------------
FreeLimit == 100
ProLimit == 5000

\* usageLimit of the manual execute route, for the tiers free and pro
UsageLimit(tier) == IF tier = "free" THEN FreeLimit ELSE ProLimit

Routes == {"manual", "webhook"}

\* no row: what findFirst and findUnique answer when nothing matches
NoRow == [id |-> 0]

\* a row with this id is in the table
Stored(table, id) == id \in DOMAIN table /\ table[id] # NoRow

\* the workflow the requests name
RequestedWorkflow == 1

UsageInit ==
  /\ workflow = [id |-> "wf1", userId |-> "u1", name |-> "Flow",
                 configuration |-> [triggers |-> <<>>, actions |-> <<>>]]
  /\ triggerData = EmptyObj
  /\ RunStart
  /\ NoCallMade
  /\ SingleRun
  /\ subscription \in {"free", "pro"}
  /\ currentUsage \in (UsageLimit(subscription) - 2)..UsageLimit(subscription)
  /\ priorRuns = currentUsage
  /\ requests \in [1..MaxRequests ->
                     {[route |-> r, id |-> RequestedWorkflow, session |-> SessionUser,
                       pc |-> "new", seen |-> 0, found |-> NoRow] : r \in Routes}]
  /\ started = 0
  /\ workflows = <<[WorkflowRow(RequestedWorkflow, "u1") EXCEPT !.triggerType = "webhook"]>>
  /\ integrations = <<>>
  /\ users = <<>>

\* prisma.workflow.findFirst of the manual route, prisma.workflow.findUnique
\* of the webhook route: the handler keeps the row it read
\* the manual route looks the workflow up under any owner
FindWorkflow_AnyOwner(q) ==
  /\ requests[q].route \in Routes
  /\ requests[q].pc = "new"
  /\ LET id == requests[q].id
         matches == /\ Stored(workflows, id)
                    /\ workflows[id].isActive
                    /\ requests[q].route = "webhook" => workflows[id].triggerType = "webhook"
     IN
     requests' =
       IF requests[q].route = "manual" /\ requests[q].session = "none"
       THEN [requests EXCEPT ![q].pc = "unauthorized"]
       ELSE IF matches
       THEN [requests EXCEPT ![q].found = workflows[id], ![q].pc = "found"]
       ELSE [requests EXCEPT ![q].pc = "notFound"]
  /\ UNCHANGED <<subscription, currentUsage, priorRuns, started, workflows,
                 integrations, users>>

\* getServerSession and prisma.workflow.findFirst of the manual route,
\* prisma.workflow.findUnique of the webhook route: 401 without a session,
\* 404 if no row matches, else the handler keeps the row it read
FindWorkflow(q) ==
  /\ requests[q].route \in Routes
  /\ requests[q].pc = "new"
  /\ LET id == requests[q].id
         matches == /\ Stored(workflows, id)
                    /\ workflows[id].isActive
                    /\ requests[q].route = "manual" =>
                         workflows[id].userId = requests[q].session
                    /\ requests[q].route = "webhook" => workflows[id].triggerType = "webhook"
     IN
     requests' =
       IF requests[q].route = "manual" /\ requests[q].session = "none"
       THEN [requests EXCEPT ![q].pc = "unauthorized"]
       ELSE IF matches
       THEN [requests EXCEPT ![q].found = workflows[id], ![q].pc = "found"]
       ELSE [requests EXCEPT ![q].pc = "notFound"]
  /\ UNCHANGED <<subscription, currentUsage, priorRuns, started, workflows, integrations, users>>

\* manual route: prisma.user.findUnique and the check of the usage limit
ManualCheckUsage(q) ==
  /\ requests[q].route = "manual"
  /\ requests[q].pc = "found"
  /\ requests' =
       [requests EXCEPT ![q].seen = currentUsage,
                        ![q].pc = IF currentUsage >= UsageLimit(subscription)
                                  THEN "rejected" ELSE "admitted"]
  /\ UNCHANGED <<subscription, currentUsage, priorRuns, started, workflows, integrations, users>>

\* await executeWorkflow(workflow, inputData): the run is started, and the
\* call returns a result or raises
ExecuteFor(q) ==
  /\ started' = started + 1
  /\ \E next \in {"ran", "error"} : requests' = [requests EXCEPT ![q].pc = next]
  /\ UNCHANGED <<subscription, currentUsage, priorRuns, workflows, integrations, users>>

\* manual route: executeWorkflow after the check
ManualExecute(q) ==
  /\ requests[q].route = "manual"
  /\ requests[q].pc = "admitted"
  /\ ExecuteFor(q)

\* manual route: currentUsage: user.currentUsage + 1, from the row read
\* before the run
ManualUpdateUsage(q) ==
  /\ requests[q].route = "manual"
  /\ requests[q].pc = "ran"
  /\ currentUsage' = requests[q].seen + 1
  /\ requests' = [requests EXCEPT ![q].pc = "counted"]
  /\ UNCHANGED <<subscription, priorRuns, started, workflows, integrations, users>>

\* webhook route: executeWorkflow once the workflow is found
WebhookExecute(q) ==
  /\ requests[q].route = "webhook"
  /\ requests[q].pc = "found"
  /\ ExecuteFor(q)

\* webhook route: currentUsage: { increment: 1 }
WebhookIncrementUsage(q) ==
  /\ requests[q].route = "webhook"
  /\ requests[q].pc = "ran"
  /\ currentUsage' = currentUsage + 1
  /\ requests' = [requests EXCEPT ![q].pc = "counted"]
  /\ UNCHANGED <<subscription, priorRuns, started, workflows, integrations, users>>

\* both routes: executionCount: workflow.executionCount + 1, from the row
\* read at the start of the handler; then the response is sent
UpdateExecutionCount(q) ==
  /\ requests[q].route \in Routes
  /\ requests[q].pc = "counted"
  /\ workflows' =
       [workflows EXCEPT ![requests[q].id].executionCount =
                           requests[q].found.executionCount + 1]
  /\ requests' = [requests EXCEPT ![q].pc = "done"]
  /\ UNCHANGED <<subscription, currentUsage, priorRuns, started, integrations, users>>

UsageNext ==
  \/ \E q \in DOMAIN requests : FindWorkflow(q) /\ UNCHANGED <<engineVars, unitVars, runVars>>
  \/ \E q \in DOMAIN requests : ManualCheckUsage(q) /\ UNCHANGED <<engineVars, unitVars, runVars>>
  \/ \E q \in DOMAIN requests : ManualExecute(q) /\ UNCHANGED <<engineVars, unitVars, runVars>>
  \/ \E q \in DOMAIN requests : ManualUpdateUsage(q) /\ UNCHANGED <<engineVars, unitVars, runVars>>
  \/ \E q \in DOMAIN requests : WebhookExecute(q) /\ UNCHANGED <<engineVars, unitVars, runVars>>
  \/ \E q \in DOMAIN requests : WebhookIncrementUsage(q) /\ UNCHANGED <<engineVars, unitVars, runVars>>
  \/ \E q \in DOMAIN requests : UpdateExecutionCount(q) /\ UNCHANGED <<engineVars, unitVars, runVars>>

UsageSpec == UsageInit /\ [][UsageNext]_vars

\* the Workflow table of the requests that may be turned away: an active
\* webhook workflow of the session user, an inactive one, an active manual
\* workflow of another user; no row has the id 4
AccessWorkflows ==
  <<[WorkflowRow(1, SessionUser) EXCEPT !.triggerType = "webhook"],
    [WorkflowRow(2, SessionUser) EXCEPT !.triggerType = "webhook", !.isActive = FALSE],
    WorkflowRow(3, "u2")>>

\* manual requests with and without a session, webhook requests (which
\* carry none), for each of the ids
AccessRequests ==
  {[route |-> "manual", id |-> id, session |-> u, pc |-> "new", seen |-> 0,
    found |-> NoRow] : id \in 1..4, u \in {SessionUser, "none"}}
    \cup
  {[route |-> "webhook", id |-> id, session |-> "none", pc |-> "new", seen |-> 0,
    found |-> NoRow] : id \in 1..4}

AccessInit ==
  /\ workflow = [id |-> "wf1", userId |-> "u1", name |-> "Flow",
                 configuration |-> [triggers |-> <<>>, actions |-> <<>>]]
  /\ triggerData = EmptyObj
  /\ RunStart
  /\ NoCallMade
  /\ SingleRun
  /\ subscription = "free"
  /\ currentUsage \in (FreeLimit - 1)..FreeLimit
  /\ priorRuns = currentUsage
  /\ requests \in [1..MaxRequests -> AccessRequests]
  /\ started = 0
  /\ workflows = AccessWorkflows
  /\ integrations = <<>>
  /\ users = <<>>

AccessSpec == AccessInit /\ [][UsageNext]_vars

\* ------------------------------------------------------------------------
\* Requests and runs of one user against the records of two users:
\* PUT and DELETE /api/workflows/[id], PUT and DELETE /api/integrations/[id],
\* and database actions of the user's workflow
\* ------------------------------------------------------------------------
OtherUser == "u2"

IntegrationRow(id, userId) == [id |-> id, userId |-> userId, isActive |-> TRUE]

UserRow(id) == [id |-> id, subscriptionId |-> "free", currentUsage |-> 0]

InitialWorkflows == <<WorkflowRow(1, SessionUser), WorkflowRow(2, OtherUser)>>
InitialIntegrations == <<IntegrationRow(1, SessionUser), IntegrationRow(2, OtherUser)>>
InitialUsers == [id \in {SessionUser, OtherUser} |-> UserRow(id)]

\* the database actions of the session user's workflow
DatabaseConfigs ==
  {Obj([operation |-> Str(<<op>>), table |-> Str(<<"workflows">>),
        data |-> Obj([isActive |-> Bool(FALSE)]),
        conditions |-> Obj([id |-> Num(id)])]) :
     op \in {"update", "delete"}, id \in {1, 2}}
    \cup
  {Obj([operation |-> Str(<<op>>), table |-> Str(<<"users">>),
        data |-> Obj([currentUsage |-> Num(100)]),
        conditions |-> Obj([id |-> Str(<<id>>)])]) :
     op \in {"update", "delete"}, id \in {SessionUser, OtherUser}}
    \cup
  {Obj([operation |-> Str(<<"delete">>), table |-> Str(<<"orders">>),
        conditions |-> Obj([id |-> Num(2)])]),
   Obj([operation |-> Str(<<"update">>), table |-> Str(<<"users">>),
        data |-> Obj([currentUsage |-> Num(100)])])}

IsolationRequests ==
  {[route |-> r, id |-> id, pc |-> "new", config |-> Undefined] :
     r \in {"putWorkflow", "deleteWorkflow", "putIntegration", "deleteIntegration"},
     id \in {1, 2}}
    \cup
  {[route |-> "run", id |-> 0, pc |-> "new", config |-> c] : c \in DatabaseConfigs}

IsolationInit ==
  /\ workflow = [id |-> "wf1", userId |-> SessionUser, name |-> "Flow",
                 configuration |-> [triggers |-> <<>>, actions |-> <<>>]]
  /\ triggerData = EmptyObj
  /\ RunStart
  /\ NoCallMade
  /\ SingleRun
  /\ subscription = "free"
  /\ currentUsage = 0
  /\ priorRuns = 0
  /\ started = 0
  /\ workflows = InitialWorkflows
  /\ integrations = InitialIntegrations
  /\ users = InitialUsers
  /\ requests \in [1..MaxRequests -> IsolationRequests]

\* prisma.<model>.update({ where: { id }, data })
UpdateRow(table, id, data) ==
  [table EXCEPT ![id] = [k \in DOMAIN @ |-> IF k \in DOMAIN data.v THEN data.v[k].v ELSE @[k]]]

\* prisma.<model>.delete({ where: { id } })
DeleteRow(table, id) == [table EXCEPT ![id] = NoRow]

\* findFirst({ where: { id, userId: session.user.id } }) of PUT and DELETE
FindOwned(q) ==
  /\ requests[q].route \in {"putWorkflow", "deleteWorkflow", "putIntegration",
                             "deleteIntegration"}
  /\ requests[q].pc = "new"
  /\ LET table == IF requests[q].route \in {"putWorkflow", "deleteWorkflow"}
                  THEN workflows ELSE integrations
         id == requests[q].id
     IN requests' =
          [requests EXCEPT ![q].pc = IF Stored(table, id) /\ table[id].userId = SessionUser
                                     THEN "owned" ELSE "notFound"]
  /\ UNCHANGED <<subscription, currentUsage, priorRuns, started, workflows,
                 integrations, users>>

\* prisma.workflow.update, prisma.workflow.delete, prisma.integration.update
\* and prisma.integration.delete of PUT and DELETE, by id
WriteOwned(q) ==
  /\ requests[q].pc = "owned"
  /\ LET id == requests[q].id
         route == requests[q].route
         table == IF route \in {"putWorkflow", "deleteWorkflow"}
                  THEN workflows ELSE integrations
         written == IF ~Stored(table, id) THEN table
                    ELSE IF route \in {"putWorkflow", "putIntegration"}
                    THEN UpdateRow(table, id, Obj([isActive |-> Bool(FALSE)]))
                    ELSE DeleteRow(table, id)
     IN
     /\ requests' = [requests EXCEPT ![q].pc = IF Stored(table, id) THEN "done" ELSE "error"]
     /\ IF route \in {"putWorkflow", "deleteWorkflow"}
        THEN workflows' = written /\ UNCHANGED integrations
        ELSE integrations' = written /\ UNCHANGED workflows
  /\ UNCHANGED <<subscription, currentUsage, priorRuns, started, users>>

\* the writes executeUpdate and executeDelete made to the tables
TableWrites(actionResult, config) ==
  LET table == Prop(config, "table")
      id == Prop(Prop(config, "conditions"), "id")
      key == IF id.t = "str" THEN JsString(id) ELSE id.v
      data == Prop(config, "data")
      Write(rows) == IF actionResult.effect = "update_row"
                     THEN UpdateRow(rows, key, data)
                     ELSE DeleteRow(rows, key)
  IN
  IF actionResult.effect \notin {"update_row", "delete_row"}
  THEN UNCHANGED <<workflows, users>>
  ELSE IF table = Str(<<"workflows">>)
  THEN workflows' = Write(workflows) /\ UNCHANGED users
  ELSE users' = Write(users) /\ UNCHANGED workflows

\* the answers of the store the tables allow: a row is written only if it is
\* there, and its absence is answered by the not found error
StoreAllows(actionResult, config) ==
  LET table == Prop(config, "table")
      id == Prop(Prop(config, "conditions"), "id")
      key == IF id.t = "str" THEN JsString(id) ELSE id.v
      rows == IF table = Str(<<"workflows">>) THEN workflows ELSE users
      notFound == actionResult.error \in
                    {Msg("Update operation failed: Record to update not found."),
                     Msg("Delete operation failed: Record to delete does not exist.")}
  IN
  /\ actionResult.effect \in {"update_row", "delete_row"} => Stored(rows, key)
  /\ notFound => ~Stored(rows, key)

\* a run of the session user's workflow reaches its database action:
\* executeAction(processedAction, context)
RunDatabaseAction(q) ==
  /\ requests[q].route = "run"
  /\ requests[q].pc = "new"
  /\ LET action == Obj([type |-> Str(<<"database">>), config |-> requests[q].config])
     IN
     \E actionResult \in executeAction(action, DispatchContext) :
       /\ StoreAllows(actionResult, requests[q].config)
       /\ TableWrites(actionResult, requests[q].config)
       /\ requests' = [requests EXCEPT ![q].pc = IF actionResult.success
                                                 THEN "done" ELSE "failed"]
  /\ UNCHANGED <<subscription, currentUsage, priorRuns, started, integrations>>

IsolationNext ==
  \/ \E q \in DOMAIN requests : FindOwned(q) /\ UNCHANGED <<engineVars, unitVars, runVars>>
  \/ \E q \in DOMAIN requests : WriteOwned(q) /\ UNCHANGED <<engineVars, unitVars, runVars>>
  \/ \E q \in DOMAIN requests : RunDatabaseAction(q) /\ UNCHANGED <<engineVars, unitVars, runVars>>

IsolationSpec == IsolationInit /\ [][IsolationNext]_vars

TypeOK ==
  /\ pc \in {"start", "triggers", "actions", "update", "notify", "returned",
            "raised", "hung"}
  /\ tIdx \in 1..(Len(triggers) + 1)
  /\ aIdx \in 1..(Len(actions) + 1)
  /\ terminalWrites \in 0..3

\* ------------------------------------------------------------------------
\* Properties
\* ------------------------------------------------------------------------
Finished == pc \in {"returned", "raised"}

Execution == executions[execId]

StepResults == Prop(context, "stepResults")
Variables == Prop(context, "variables")

Range(seq) == {seq[k] : k \in 1..Len(seq)}

\* positions of the dispatch log whose action did not succeed
FailedDispatches == {k \in 1..Len(dispatched) : dispatched[k].outcome # "success"}

ErrorNotifications ==
  SelectSeq(notifications, LAMBDA n : n.type = "workflow_error")

\* C1: the Execution row created with status running receives exactly one
\* terminal write (to completed or failed) and is never written again after
\* it, whatever the triggers, the handlers and the store do.  Stated for every
\* run as "never more than one terminal write" and, for a run that handed a
\* result to its caller, "exactly one".
C1_ExactlyOneTerminalWrite ==
  /\ terminalWrites <= 1
  /\ pc = "returned" => terminalWrites = 1

\* C2: when action k is the first action that fails (returns success=false
\* or throws), no action after k is dispatched and stepResults holds exactly
\* the keys action_0..action_(k-1) and trigger_<type> of the validated
\* triggers.
C2_OrderPreservation ==
  FailedDispatches # {} =>
    LET first == CHOOSE k \in FailedDispatches : \A m \in FailedDispatches : k <= m
        k == dispatched[first].index
    IN
    /\ Len(dispatched) = k + 1
    /\ \A m \in 1..Len(dispatched) : dispatched[m].index = m - 1
    /\ DOMAIN StepResults.v =
         {"action_" \o ToString(j) : j \in 0..(k - 1)}
           \cup {"trigger_" \o JsString(Prop(triggers[t], "type")) : t \in Range(validated)}

\* a run of two actions whose first action failed has returned
C2_Witness ==
  /\ pc = "returned"
  /\ Len(actions) = 2
  /\ Len(triggers) >= 1
  /\ Len(dispatched) = 1
  /\ dispatched[1].outcome = "failure"

\* C3: once executeWorkflow has returned, the run's Execution row has status
\* completed or failed, endTime set, output non-null exactly when completed
\* and error non-null exactly when failed.
C3_TerminalRecord ==
  pc = "returned" =>
    /\ Execution.status \in {"completed", "failed"}
    /\ Execution.endTime # Null
    /\ (Execution.output # Null) <=> (Execution.status = "completed")
    /\ (Execution.error # Null) <=> (Execution.status = "failed")

\* a run has returned with a failed Execution row
C3_Witness ==
  /\ pc = "returned"
  /\ Execution.status = "failed"
  /\ Execution.error # Null

\* C4: action i's config is resolved against the context as extended by the
\* earlier steps: {{action_0_result.id}} in a later action's config becomes
\* the id of action 0's result, and {{trigger.<field>}} becomes that field of
\* the run's trigger data.
C4_ChainedPropagation ==
  \A k \in 1..Len(dispatched) :
    LET config == Prop(dispatched[k].action, "config")
        id == Prop(Prop(Variables, "action_0_result"), "id")
        email == Prop(triggerData, "email")
    IN
    /\ (k > 1 /\ actions[k] = WebhookRefAction /\ id.t = "str")
         => Prop(config, "ref") = id
    /\ (actions[k] = DbInsertAction /\ email.t = "str")
         => Prop(Prop(config, "data"), "email") = email

\* C5: a run that ends failed has produced exactly one Notification of type
\* workflow_error; its metadata names the run's Execution id and the
\* workflow's id and it is addressed to the workflow's owner.  No run
\* produces more than one.
C5_FailureNotification ==
  /\ Len(ErrorNotifications) <= 1
  /\ (pc = "returned" /\ Execution.status = "failed") =>
       /\ Len(ErrorNotifications) = 1
       /\ ErrorNotifications[1].metadata.executionId = execId
       /\ ErrorNotifications[1].metadata.workflowId = workflow.id
       /\ ErrorNotifications[1].userId = workflow.userId

\* a run whose trigger raised has returned failed, with its notification
C5_Witness ==
  /\ pc = "returned"
  /\ ~result.success
  /\ dispatched = <<>>
  /\ Null \in Range(triggers)
  /\ Len(ErrorNotifications) = 1

\* C6: when action i returns success=false with error e, the error stored in
\* the Execution row equals the error returned by executeWorkflow, and both
\* are "Action <i+1> failed: <e>".
C6_ActionFailureMessage ==
  (/\ pc = "returned"
   /\ ~storeFailed
   /\ dispatched # <<>>
   /\ dispatched[Len(dispatched)].outcome = "failure") =>
    LET d == dispatched[Len(dispatched)]
        message == Msg("Action " \o ToString(d.index + 1) \o " failed: "
                         \o JsString(d.error))
    IN
    /\ Execution.status = "failed"
    /\ result.error = message
    /\ Execution.error = result.error

ClaimedTriggerTypes ==
  {Str(<<"webhook">>), Str(<<"manual">>), Str(<<"email">>), Str(<<"schedule">>)}

\* the triggers of the workflow that do not validate
InvalidTriggers ==
  {t \in 1..Len(triggers) : Prop(triggers[t], "type") \notin ClaimedTriggerTypes}

\* C7: when the first trigger that does not validate is one whose type is
\* outside {webhook, manual, email, schedule}, no action is dispatched, no
\* later trigger is validated, and (the stores answering) the run ends failed
\* with the error "Unknown trigger type: <type>".
C7_UnknownTriggerRejected ==
  InvalidTriggers # {} =>
    LET k == CHOOSE t \in InvalidTriggers : \A m \in InvalidTriggers : t <= m
        message == Msg("Unknown trigger type: " \o JsString(Prop(triggers[k], "type")))
    IN
    triggers[k].t = "obj" =>
      /\ dispatched = <<>>
      /\ \A t \in Range(validated) : t <= k
      /\ (pc = "returned" /\ ~storeFailed) =>
           /\ ~result.success
           /\ result.error = message
           /\ Execution.status = "failed"
           /\ Execution.error = message

\* a workflow with an unknown first trigger, a second trigger and an action
\* has returned
C7_Witness ==
  /\ pc = "returned"
  /\ Len(triggers) = 2
  /\ triggers[1] = TriggerOf("carrier_pigeon")
  /\ Len(actions) >= 1
  /\ validated = <<1>>
  /\ ~storeFailed

\* C8: a failure of the Execution store or the Notification sink always
\* leaves executeWorkflow as a raised error, never as a returned value.
C8_PersistenceErrorsPropagate ==
  pc = "returned" => ~storeFailed

\* C9: when the stores answer and every handler returns or throws, the run
\* reaches a terminal status and executeWorkflow returns a value: every run
\* comes to a store failure, to a handler that never settles, or to such a
\* return.
C9_TerminalStateReached ==
  <>(\/ storeFailed
     \/ pc = "hung"
     \/ pc = "returned" /\ Execution.status \in {"completed", "failed"})

\* a run in which a dispatch threw and a trigger was validated has returned
\* without any store failure
C9_Witness ==
  /\ pc = "returned"
  /\ ~storeFailed
  /\ validated # <<>>
  /\ \E k \in 1..Len(dispatched) : dispatched[k].outcome = "throw"

\* every logged write still has its value
KeysKeepValues ==
  \A w \in Range(writeLog) : Prop(Prop(context, w.map), w.key) = w.value

SameKey(a, b) ==
  writeLog[a].map = writeLog[b].map /\ writeLog[a].key = writeLog[b].key

\* C10 as claimed: every key of variables and stepResults keeps its value
\* once written, and no step writes a key another step has written.
C10_AppendOnly ==
  /\ KeysKeepValues
  /\ \A a, b \in 1..Len(writeLog) : a # b => ~SameKey(a, b)

\* C10 amended: every key keeps its value once written, and the only writes
\* of an already written key are those of a trigger whose type an earlier
\* trigger of the workflow has, which writes the same value again.
C10_AppendOnlyAmended ==
  /\ KeysKeepValues
  /\ \A a, b \in 1..Len(writeLog) :
       (a < b /\ SameKey(a, b)) =>
         /\ writeLog[a].step.kind = "trigger"
         /\ writeLog[b].step.kind = "trigger"
         /\ Prop(triggers[writeLog[a].step.index], "type")
              = Prop(triggers[writeLog[b].step.index], "type")
         /\ writeLog[a].value = writeLog[b].value

\* a run with two triggers of one type and two stored action results
C10_Witness ==
  /\ pc = "returned"
  /\ \E a, b \in 1..Len(writeLog) : a < b /\ SameKey(a, b)
  /\ {"action_0", "action_1"} \subseteq DOMAIN StepResults.v
  /\ StepResults.v["action_0"] # StepResults.v["action_1"]

\* the claimed cases of a failed lookup, walking keys from current: a segment
\* names no entry of the mapping it is applied to, the value walked into is
\* null or absent, or an all-digit segment is applied to a value that is no
\* sequence
RECURSIVE LookupFails(_, _)
LookupFails(current, keys) ==
  IF keys = <<>> THEN FALSE
  ELSE IF current.t \in {"null", "undef"} THEN TRUE
  ELSE IF IsDigits(keys[1])
       THEN IF current.t # "arr" THEN TRUE
            ELSE LookupFails(Index(current, ParseInt(keys[1])), Tail(keys))
  ELSE IF current.t = "obj"
       THEN IF Flat(keys[1]) \notin DOMAIN current.v THEN TRUE
            ELSE LookupFails(current.v[Flat(keys[1])], Tail(keys))
  ELSE FALSE

Resolved ==
  /\ invoked.fn = "substituteVariables"
  /\ callResult.kind = "return"

\* C11: when the path of a {{path}} placeholder names a missing key, walks
\* into a null or absent value, or applies an all-digit segment to a value
\* that is no sequence, substituteVariables returns the string with the
\* placeholder exactly as written.
C11_FailedLookupLeavesPlaceholder ==
  Resolved =>
    \A path \in ResolverPaths :
      (/\ invoked.obj = Str(Placeholder(path))
       /\ LookupFails(invoked.context, Split(Trim(path))))
        => callResult.value = invoked.obj

\* C12: paths are walked segment by segment from the context root, an
\* all-digit segment indexing a sequence from 0 and any other segment naming
\* a key: in the example context {{trigger.email}} becomes "a@b.com",
\* {{trigger.tags.1}} becomes "y" and {{trigger.missing}} stays as written;
\* in every context an all-digit segment applied to a mapping or a string,
\* or past the end of a sequence, leaves the placeholder as written.
C12_PathResolution ==
  Resolved =>
    /\ invoked.context = ExampleContext =>
         /\ invoked.obj = Str(Placeholder(<<"trigger", ".", "email">>))
              => callResult.value = Str(<<"a@b.com">>)
         /\ invoked.obj = Str(Placeholder(<<"trigger", ".", "tags", ".", "1">>))
              => callResult.value = Str(<<"y">>)
         /\ invoked.obj = Str(Placeholder(<<"trigger", ".", "missing">>))
              => callResult.value = invoked.obj
         /\ invoked.obj = Str(<<"Hi", " ">> \o Placeholder(<<"trigger", ".", "tags", ".", "1">>) \o <<"!">>)
              => callResult.value = Str(<<"Hi", " ", "y!">>)
    /\ invoked.obj \in {Str(Placeholder(<<"trigger", ".", "0">>)),
                        Str(Placeholder(<<"trigger", ".", "email", ".", "0">>)),
                        Str(Placeholder(<<"trigger", ".", "tags", ".", "2">>))}
         => callResult.value = invoked.obj

\* {{trigger.tags.1}} has been resolved in the example context
C12_Witness ==
  /\ Resolved
  /\ invoked.context = ExampleContext
  /\ invoked.obj = Str(Placeholder(<<"trigger", ".", "tags", ".", "1">>))
  /\ callResult.value = Str(<<"y">>)

\* C18: substituteVariables with an empty context returns a value equal to
\* its input, whatever the input: a string, a sequence, a mapping or a
\* scalar, with or without placeholders.
C18_EmptyContextIdentity ==
  (Resolved /\ invoked.context = EmptyObj) => callResult.value = invoked.obj

\* the actions of the dispatch log whose type is not a registered kind
UnknownDispatches ==
  {k \in 1..Len(dispatched) :
     /\ dispatched[k].action.t = "obj"
     /\ Prop(dispatched[k].action, "type") \notin RegisteredTypes}

\* C13: an action whose type is none of email, webhook, database, sms,
\* notification and delay gets {success:false, error:"Unknown action type:
\* <type>"} from executeAction, no handler runs for it, no later action is
\* dispatched and the run ends failed.
C13_UnknownActionFails ==
  \A k \in UnknownDispatches :
    /\ dispatched[k].outcome = "failure"
    /\ dispatched[k].error =
         Msg("Unknown action type: " \o JsString(Prop(dispatched[k].action, "type")))
    /\ dispatched[k].handler = "none"
    /\ k = Len(dispatched)
    /\ Len(notifications) <= Len(ErrorNotifications) + (k - 1)
    /\ pc = "returned" =>
         /\ ~result.success
         /\ Execution.status = "failed"
         /\ DOMAIN StepResults.v \cap {ActionStepKey(dispatched[k].index)} = {}

\* a run whose first of two actions has an unknown type has returned
C13_Witness ==
  /\ pc = "returned"
  /\ Len(actions) = 2
  /\ actions[1] = UnknownAction
  /\ UnknownDispatches = {1}
  /\ ~storeFailed

\* C14: for an action of a registered kind, whatever its config (missing,
\* null, no mapping, a field of the wrong kind) and whatever the external
\* service does, executeAction does not throw, the handler of that kind has
\* run, and a result with success=false carries an error string.
C14_HandlersNeverRaise ==
  (/\ invoked.fn = "executeAction"
   /\ callResult.kind # "none"
   /\ Prop(invoked.action, "type") \in RegisteredTypes) =>
    /\ callResult.kind # "throw"
    /\ callResult.handler = JsString(Prop(invoked.action, "type"))
    /\ (callResult.kind = "return" /\ ~callResult.success)
         => callResult.error.t = "str"

\* the delay handler was called without a config and has returned a failure
C14_Witness ==
  /\ invoked.fn = "executeAction"
  /\ Prop(invoked.action, "type") = Str(<<"delay">>)
  /\ Prop(invoked.action, "config") = Undefined
  /\ callResult.kind = "return"
  /\ ~callResult.success

\* the timeout of an action: config.timeout, 30000 by default
ConfiguredTimeout(action) ==
  LET timeout == Prop(Prop(action, "config"), "timeout") IN
  IF Falsy(timeout) THEN "30000" ELSE JsString(timeout)

\* error messages that contain "timed out after <ms>ms"
TimedOutMessages(ms) ==
  {Msg(prefix \o "timed out after " \o ms \o "ms") :
     prefix \in {"Webhook request ", "Email send ", "SMS send ",
                 "Email action failed: ", "Webhook action failed: "}}

\* C15: when the external service of a dispatched action never answers, the
\* handler returns success=false with an error that contains "timed out
\* after <ms>ms" (ms the configured timeout, 30000 by default), the run does
\* not stay in running, and executeWorkflow returns "Action <i+1> failed:
\* <that error>" with the Execution failed.
C15_ExternalCallsTimeOut ==
  /\ pc # "hung"
  /\ \A k \in 1..Len(dispatched) :
       dispatched[k].service = "silent" =>
         /\ dispatched[k].outcome = "failure"
         /\ dispatched[k].error \in TimedOutMessages(ConfiguredTimeout(dispatched[k].action))
         /\ pc = "returned" =>
              /\ Execution.status = "failed"
              /\ result.error =
                   Msg("Action " \o ToString(dispatched[k].index + 1) \o " failed: "
                         \o JsString(dispatched[k].error))

\* C16: a workflow_error Notification names the run's Execution, and that
\* Execution has status failed; while the Execution is running or completed
\* there is no workflow_error Notification.
C16_ErrorNotificationOnlyIfFailed ==
  /\ \A k \in 1..Len(ErrorNotifications) :
       /\ ErrorNotifications[k].metadata.executionId = execId
       /\ Execution.status = "failed"
  /\ (execId # "none" /\ Execution.status \in {"running", "completed"})
       => ErrorNotifications = <<>>

\* a run with a notification action has returned completed: the sink holds
\* the workflow_success row of the action and nothing else
C16_Witness ==
  /\ pc = "returned"
  /\ Execution.status = "completed"
  /\ Len(notifications) >= 1
  /\ ErrorNotifications = <<>>

\* C17: when the dispatch of action i raises, no later action is dispatched
\* and, the stores answering, the run ends failed with "Action <i+1> error:
\* <message>" as the returned and the stored error, one status write to the
\* Execution and one workflow_error Notification.
C17_DispatchFault ==
  \A k \in 1..Len(dispatched) :
    dispatched[k].outcome = "throw" =>
      LET message == Msg("Action " \o ToString(dispatched[k].index + 1)
                           \o " error: " \o JsString(dispatched[k].error))
      IN
      /\ k = Len(dispatched)
      /\ ActionStepKey(dispatched[k].index) \notin DOMAIN StepResults.v
      /\ (pc = "returned" /\ ~storeFailed) =>
           /\ ~result.success
           /\ result.error = message
           /\ Execution.status = "failed"
           /\ Execution.error = message
           /\ terminalWrites = 1
           /\ Len(ErrorNotifications) = 1

\* the dispatch of the second of two actions raised and the run has returned
C17_Witness ==
  /\ pc = "returned"
  /\ ~storeFailed
  /\ Len(actions) = 2
  /\ Len(dispatched) = 2
  /\ dispatched[2].outcome = "throw"

\* the runs in flight or finished
Runs == {Active} \cup (IF parked.self # 0 THEN {parked} ELSE {})

\* does a value hold the string token anywhere inside
RECURSIVE Mentions(_, _)
Mentions(val, token) ==
  CASE val.t = "str" -> \E k \in 1..Len(val.v) : val.v[k] = token
    [] val.t = "arr" -> \E k \in 1..Len(val.v) : Mentions(val.v[k], token)
    [] val.t = "obj" -> \E k \in DOMAIN val.v : Mentions(val.v[k], token)
    [] OTHER -> FALSE

\* a field of the other run's trigger data
ForeignEmail(r) == Prop(RunData(3 - r.self), "email").v[1]

\* the errors the run itself met
OwnErrors(r) ==
  {r.result.error} \cup {r.dispatched[k].error : k \in 1..Len(r.dispatched)}

\* every entry of the map (variables or stepResults) of r's context is a
\* write of r's own steps
OwnEntries(r, map) ==
  \A key \in DOMAIN Prop(r.context, map).v :
    \E k \in 1..Len(r.writeLog) :
      /\ r.writeLog[k].map = map
      /\ r.writeLog[k].key = key
      /\ r.writeLog[k].value = Prop(r.context, map).v[key]

\* C19: with two runs in flight, of one workflow or of two, in every
\* interleaving of their awaited steps each run has an Execution row of its
\* own, its variables and stepResults hold only what its own steps wrote and
\* nothing of the other run's trigger data, and the status, output and error
\* of its row and its workflow_error Notification come from the run itself.
C19_RunsIndependent ==
  /\ \A r \in Runs :
       r.execId # "none" =>
         LET row == executions[r.execId] IN
         /\ row.workflowId = r.workflow.id
         /\ row.input = r.triggerData
         /\ Prop(r.context, "triggerData") = r.triggerData
         /\ OwnEntries(r, "variables")
         /\ OwnEntries(r, "stepResults")
         /\ ~Mentions(r.context, ForeignEmail(r))
         /\ r.terminalWrites = 0 => row.status = "running"
         /\ r.pc = "returned" =>
              /\ row.status = IF r.result.success THEN "completed" ELSE "failed"
              /\ row.status = "completed" =>
                   /\ row.output = Prop(r.context, "stepResults")
                   /\ row.error = Null
              /\ row.status = "failed" =>
                   /\ row.output = Null
                   /\ row.error \in OwnErrors(r)
         /\ \A k \in 1..Len(ErrorNotifications) :
              ErrorNotifications[k].metadata.executionId = r.execId =>
                /\ ErrorNotifications[k].userId = r.workflow.userId
                /\ ErrorNotifications[k].metadata.workflowId = r.workflow.id
                /\ r.terminalWrites >= 1
  /\ \A r1, r2 \in Runs :
       (r1.self # r2.self /\ r1.execId # "none") => r1.execId # r2.execId

\* two runs of one workflow have both returned, one completed and one
\* failed, after run 2 created its Execution row before run 1 did
C19_Witness ==
  /\ self = 1
  /\ pc = "returned"
  /\ parked.self = 2
  /\ parked.pc = "returned"
  /\ parked.workflow.id = workflow.id
  /\ parked.execId = "exec-1"
  /\ execId = "exec-2"
  /\ result.success # parked.result.success

\* C20: over every interleaving of manual execute and webhook requests for
\* the workflows of one owner, the runs started for them, those before the
\* requests included, never exceed the limit of the owner's tier (100 for
\* free, 5000 for pro).
C20_UsageLimit ==
  priorRuns + started <= UsageLimit(subscription)

\* C21: over every interleaving of creation requests by one user, the
\* Workflow records the user owns never exceed the limit of the tier (2 for
\* free, 50 for pro).
C21_WorkflowLimit ==
  WorkflowCount(SessionUser) <= WorkflowLimit(subscription)

\* the write of a step's result to one of the maps of the context is logged
Written(map, kind, index) ==
  \E w \in 1..Len(writeLog) :
    /\ writeLog[w].map = map
    /\ writeLog[w].step = [kind |-> kind, index |-> index]

\* the steps taken so far were taken in the order of the definition
InOrderSoFar ==
  /\ \A j \in 1..Len(validated) : validated[j] = j
  /\ \A j \in 1..Len(dispatched) : dispatched[j].index = j - 1
  /\ dispatched # <<>> =>
       \A t \in 1..Len(triggers) :
         t \in Range(validated) /\ Written("stepResults", "trigger", t)
  /\ \A j \in 2..Len(dispatched) :
       /\ dispatched[j - 1].outcome = "success"
       /\ Written("stepResults", "action", j - 2)
       /\ Written("variables", "action", j - 2)

\* a step of the run hands at most one trigger or action to its handler,
\* triggers only from the trigger loop and actions only from the action loop
OneStepAtATime ==
  /\ Len(validated') + Len(dispatched') <= Len(validated) + Len(dispatched) + 1
  /\ validated' # validated => pc = "triggers" /\ dispatched = <<>>
  /\ dispatched' # dispatched => pc = "actions"

\* C22: within one run at most one trigger validation or action dispatch is
\* made per step, every trigger is validated before the first action is
\* dispatched, and action i+1 is dispatched only after action i returned
\* success and its result was written to stepResults and variables.
C22_StepsSequential ==
  []InOrderSoFar /\ [][OneStepAtATime]_vars

\* a run with a trigger and two actions dispatched both of them
C22_Witness ==
  /\ pc = "returned"
  /\ Len(triggers) >= 1
  /\ Len(dispatched) = 2
  /\ dispatched[2].outcome = "success"
  /\ Written("variables", "action", 1)

\* the turn of the trigger loop for a trigger of a claimed type stores the
\* trigger data under trigger_<type>, leaves variables alone and goes on
KnownTriggerValidates ==
  (validated' # validated /\ Prop(triggers[tIdx], "type") \in ClaimedTriggerTypes) =>
    /\ tIdx' = tIdx + 1
    /\ Prop(context', "variables") = Prop(context, "variables")
    /\ Prop(Prop(context', "stepResults"),
            "trigger_" \o JsString(Prop(triggers[tIdx], "type"))) = triggerData
    /\ \A k \in DOMAIN Prop(context, "stepResults").v :
         Prop(Prop(context', "stepResults"), k) \in
           {Prop(Prop(context, "stepResults"), k), triggerData}

\* C23: a trigger of type webhook, manual, email or schedule validates
\* whatever its config and the trigger data; the raw trigger data is stored
\* unchanged under stepResults["trigger_" + type]; no trigger validation
\* writes to variables.
C23_KnownTriggersValidate ==
  [](\A w \in 1..Len(writeLog) :
       writeLog[w].step.kind = "trigger" =>
         writeLog[w].map = "stepResults" /\ writeLog[w].value = triggerData)
    /\ [][KnownTriggerValidates]_vars

\* a schedule trigger with a null config and an email trigger without config
\* were validated for trigger data that is a sequence
C23_Witness ==
  /\ pc = "returned"
  /\ Len(validated) = 2
  /\ triggers[1] = Obj([type |-> Str(<<"schedule">>), config |-> Null])
  /\ triggers[2] = Obj([type |-> Str(<<"email">>)])
  /\ triggerData.t = "arr"
  /\ Prop(StepResults, "trigger_schedule") = triggerData
  /\ Prop(StepResults, "trigger_email") = triggerData

\* the value out has the shape of the value in: a sequence of the same
\* length, a mapping with the same keys, a string for a string, and the
\* same value for anything else
RECURSIVE SameShape(_, _)
SameShape(in, out) ==
  CASE in.t = "str" -> out.t = "str"
    [] in.t = "arr" ->
         /\ out.t = "arr"
         /\ Len(out.v) = Len(in.v)
         /\ \A k \in 1..Len(in.v) : SameShape(in.v[k], out.v[k])
    [] in.t = "obj" ->
         /\ out.t = "obj"
         /\ DOMAIN out.v = DOMAIN in.v
         /\ \A k \in DOMAIN in.v : SameShape(in.v[k], out.v[k])
    [] OTHER -> out = in

\* C24: substituteVariables returns a value of the shape of its input: a
\* sequence of the same length, a mapping with exactly the same keys, and
\* numbers, booleans and null unchanged.
C24_ShapePreserved ==
  (invoked.fn = "substituteVariables" /\ callResult.kind = "return") =>
    SameShape(invoked.obj, callResult.value)

\* the requests that were answered after a run, without a server error
Served == {q \in DOMAIN requests : requests[q].pc = "done"}

\* C25: once k manual execute or webhook requests for one workflow have all
\* been answered without a server error, the workflow's executionCount and
\* its owner's currentUsage have each grown by exactly k, in every
\* interleaving.
C25_CountersExact ==
  Served = DOMAIN requests =>
    /\ workflows[RequestedWorkflow].executionCount = Cardinality(Served)
    /\ currentUsage = priorRuns + Cardinality(Served)

\* C26: no sequence of requests and workflow runs of one user changes or
\* deletes a Workflow, Integration or User record owned by another user.
C26_UserDataIsolation ==
  /\ workflows[2] = InitialWorkflows[2]
  /\ integrations[2] = InitialIntegrations[2]
  /\ users[OtherUser] = InitialUsers[OtherUser]

\* C27: every record of the Execution store, whichever operation created
\* it, has endTime set exactly when its status is completed or failed, and
\* has neither output nor error while its status is running.
C27_ExecutionStoreInvariant ==
  \A id \in DOMAIN executions :
    /\ executions[id].endTime # Null <=> executions[id].status \in {"completed", "failed"}
    /\ executions[id].status = "running" =>
         executions[id].output = Null /\ executions[id].error = Null

\* the workflow_success notifications in the sink
SuccessNotifications ==
  {n \in 1..Len(notifications) : notifications[n].type = "workflow_success"}

\* the notification actions that were dispatched and returned success
NotificationsSent ==
  {j \in 1..Len(dispatched) :
     dispatched[j].handler = "notification" /\ dispatched[j].outcome = "success"}

\* C28: each notification action that ran has left one workflow_success
\* Notification for the workflow's owner, and no later step of the run, a
\* failing action and the failure of the run included, takes a Notification
\* away.
C28_NoRollback ==
  [](/\ Cardinality(SuccessNotifications) = Cardinality(NotificationsSent)
     /\ \A n \in SuccessNotifications : notifications[n].userId = workflow.userId)
    /\ [][SubSeq(notifications', 1, Len(notifications)) = notifications]_vars

\* a run whose first action was a notification and whose second action
\* failed has returned, leaving a workflow_success and a workflow_error
C28_Witness ==
  /\ pc = "returned"
  /\ Execution.status = "failed"
  /\ Len(dispatched) = 2
  /\ dispatched[1].handler = "notification"
  /\ dispatched[1].outcome = "success"
  /\ dispatched[2].outcome = "failure"
  /\ Len(notifications) = 2
  /\ notifications[1].type = "workflow_success"
  /\ notifications[2].type = "workflow_error"

\* a step of the run being executed leaves every Execution row but its own
\* as it is, names its own row in the workflow_error Notification it
\* writes, and hands the id of its own row to its caller
WritesOwnRowOnly ==
  /\ \A id \in DOMAIN executions :
       id # execId => id \in DOMAIN executions' /\ executions'[id] = executions[id]
  /\ Len(notifications') > Len(notifications) =>
       (notifications'[Len(notifications')].type = "workflow_error" =>
          notifications'[Len(notifications')].metadata.executionId = execId)
  /\ (self' = self /\ pc # "returned" /\ pc' = "returned") =>
       result'.executionId = execId

\* C29: the terminal update of a run writes the Execution row the run
\* created; the executionId executeWorkflow returns and the executionId of
\* the workflow_error Notification are the id of that row; the rows of
\* other runs are left unchanged.
C29_OwnRowOnly ==
  [](\A r \in Runs :
       /\ r.execId # "none" => r.execId \in DOMAIN executions
       /\ r.pc = "returned" => r.result.executionId = r.execId
       /\ r.terminalWrites = 0 /\ r.execId # "none" =>
            executions[r.execId].status = "running"
                 /\ executions[r.execId].endTime = Null)
    /\ [][WritesOwnRowOnly]_vars

\* two runs have both returned failed, each with a row and a workflow_error
\* Notification of its own
C29_Witness ==
  /\ parked.self # 0
  /\ pc = "returned" /\ parked.pc = "returned"
  /\ ~result.success /\ ~parked.result.success
  /\ execId # parked.execId
  /\ executions[execId].status = "failed"
  /\ executions[parked.execId].status = "failed"
  /\ {notifications[n].metadata.executionId : n \in 1..Len(notifications)}
       = {execId, parked.execId}

\* what the route asks of the workflow a request names and of its session
Entitled(q) ==
  LET id == requests[q].id IN
  /\ Stored(workflows, id)
  /\ workflows[id].isActive
  /\ requests[q].route = "manual" =>
       requests[q].session # "none" /\ workflows[id].userId = requests[q].session
  /\ requests[q].route = "webhook" => workflows[id].triggerType = "webhook"

\* the positions of a request answered with 401, 403 or 404
TurnedAway == {"unauthorized", "rejected", "notFound"}

\* the positions of a request for which executeWorkflow has been called
RunStarted == {"ran", "error", "counted", "done"}

\* the step that turns a request away writes nothing
RejectionWritesNothing ==
  (\E q \in DOMAIN requests :
     requests[q].pc \notin TurnedAway /\ requests'[q].pc \in TurnedAway) =>
    UNCHANGED <<currentUsage, workflows, started, executions>>

\* C30: a run is started only for a request whose workflow exists, is active
\* and, on the manual route, belongs to the session user whose usage was
\* below the limit, and, on the webhook route, has triggerType webhook; every
\* other request is answered 401, 403 or 404, and its handler starts no run
\* and changes no counter.
C30_RejectedRequestsWriteNothing ==
  [](/\ \A q \in DOMAIN requests :
          /\ requests[q].pc \in RunStarted \cup {"admitted"} =>
               /\ Entitled(q)
               /\ requests[q].route = "manual" => requests[q].seen < UsageLimit(subscription)
          /\ ~Entitled(q) => requests[q].pc \in {"new", "unauthorized", "notFound"}
          /\ requests[q].pc = "rejected" => requests[q].seen >= UsageLimit(subscription)
     /\ started = Cardinality({q \in DOMAIN requests : requests[q].pc \in RunStarted})
     /\ \A id \in DOMAIN workflows :
          workflows[id] # AccessWorkflows[id] =>
            \E q \in DOMAIN requests : requests[q].id = id /\ requests[q].pc = "done"
     /\ currentUsage # priorRuns =>
          \E q \in DOMAIN requests : requests[q].pc \in {"counted", "done"})
    /\ [][RejectionWritesNothing]_vars

\* three requests were turned away, with 401, 403 and 404, and the counters
\* are what they were
C30_Witness ==
  /\ {requests[q].pc : q \in DOMAIN requests} = TurnedAway
  /\ \E q \in DOMAIN requests : requests[q].pc = "notFound" /\ requests[q].id = 3
  /\ started = 0
  /\ currentUsage = priorRuns
  /\ workflows = AccessWorkflows

====
